---- MODULE Spec2Model ----
(***************************************************************************)
(* libvictor: the HNSW index (graph.c, index_hnsw.c), the heap (heap.c),   *)
(* the id map (map.c) and the locked index facade (index.c).               *)
(*                                                                         *)
(* Pointers to GraphNode are indices into the arena `nodes`; NULL is 0.    *)
(* A vector is a sequence of DimsAligned numbers.  The metric is L2NORM.   *)
(***************************************************************************)
EXTENDS Integers, Sequences, FiniteSets, TLC

(* ---------------------------------------------------------------- bounds *)
\* Capacity of the node arena: at most MaxNodes graph nodes are ever allocated.
MaxNodes == 2
\* Number of facade searches whose timing is recorded before the model stops searching.
MaxSearches == 1

(* ------------------------------------------------------------- constants *)
NULL == 0
NULL_ID == 0
\* worst_match_value of L2NORM (INFINITY): larger than every distance of the model
INFINITY == 1000000
NOLIMIT_HEAP == -1
DEFAULT_SIZE == 50
\* init_map(&idx->map, 100000, 15) in alloc_index
IndexMapSize == 100000
IndexMapThreshold == 15

HEAP_BETTER_TOP == "HEAP_BETTER_TOP"
HEAP_WORST_TOP == "HEAP_WORST_TOP"

(* ------------------------------------------------------------ input sets *)
\* first coordinates of the vectors callers pass; the other coordinates are 0
Coords == {0, 2}
MkVec(c) == <<c, 0, 0, 0>>
\* dims of the index: the length of a well-formed vector, a multiple of 4
Dims == Len(MkVec(0))
ALIGN_DIMS(d) == ((d + 3) \div 4) * 4
DimsAligned == ALIGN_DIMS(Dims)
GoodVectors == {MkVec(c) : c \in Coords}
\* a vector of the wrong dimensionality
BadVector == <<1, 0, 0>>
Ids == {1, 2}
Tags == {1, 2}
QueryTags == {0, 1, 3}
\* levels assign_level may draw
Levels == {0, 1}
Ks == {1, 2}
\* the searches the threads make; what a search writes to its output is
\* checked for every query of QueryTags, GoodVectors and Ks on every state
SearchTags == {0, 1}
SearchVectors == {MkVec(0), BadVector}
SearchKs == {1}
\* elapsed milliseconds a timed call may measure
Deltas == {1}

(* ------------------------------------------------------- distance kernel *)
RECURSIVE SumSq(_, _, _)
SumSq(v1, v2, i) ==
    IF i = 0 THEN 0
    ELSE SumSq(v1, v2, i - 1) + (v1[i] - v2[i]) * (v1[i] - v2[i])

Sqrtf(s) == CHOOSE r \in 0..s : r * r <= s /\ (r + 1) * (r + 1) > s

\* euclidean_distance: sqrtf of the sum of squared differences over dims
compare_vectors(v1, v2, dims) == Sqrtf(SumSq(v1, v2, dims))

\* euclidean_distance_best
is_better_match(a, b) == a < b

worst_match_value == INFINITY

\* With(v, Body) is Body(v): v is a local, assigned once and read where Body
\* names it
With(v, Body(_)) == Body(v)

(* ------------------------------------------------------------------ heap *)
\* A Heap is [heap: Seq(HeapNode), c_size, m_size, type, e]; heap holds the
\* first e slots of the backing array.  A HeapNode is [value, distance].
HeapNode(v, d) == [value |-> v, distance |-> d]

LCHD(i) == 2 * i + 1
RCHD(i) == 2 * i + 2
PARENT(i) == IF i = 0 THEN 0 ELSE (i - 1) \div 2

\* C arrays are 0-based: slot i of the array is heap[i + 1]
At(a, i) == a[i + 1]
Swap(a, i, j) == [a EXCEPT ![i + 1] = a[j + 1], ![j + 1] = a[i + 1]]

init_heap(type, max_size) ==
    [heap |-> <<>>, e |-> 0, m_size |-> max_size,
     c_size |-> IF max_size = NOLIMIT_HEAP THEN DEFAULT_SIZE ELSE max_size,
     type |-> type]

heap_size(h) == h.e
heap_cap(h) == h.m_size
heap_full(h) == ~(h.m_size = NOLIMIT_HEAP \/ h.e < h.m_size)

RECURSIVE SiftDown(_, _, _, _)
SiftDown(a, e, type, i) ==
    LET l == LCHD(i)
        r == RCHD(i)
        t1 == IF type = HEAP_BETTER_TOP
              THEN IF l < e /\ is_better_match(At(a, l).distance, At(a, i).distance)
                   THEN l ELSE i
              ELSE IF l < e /\ ~is_better_match(At(a, l).distance, At(a, i).distance)
                   THEN l ELSE i
        target == IF type = HEAP_BETTER_TOP
                  THEN IF r < e /\ is_better_match(At(a, r).distance, At(a, t1).distance)
                       THEN r ELSE t1
                  ELSE IF r < e /\ ~is_better_match(At(a, r).distance, At(a, t1).distance)
                       THEN r ELSE t1
    IN IF target = i THEN a ELSE SiftDown(Swap(a, i, target), e, type, target)

\* heapify_down that leaves the moved element at the root
heapify_down_noop(h) == h

heapify_down(h) == IF h.e = 0 THEN h ELSE [h EXCEPT !.heap = SiftDown(h.heap, h.e, h.type, 0)]

RECURSIVE SiftUp(_, _, _)
SiftUp(a, type, i) ==
    IF i = 0 THEN a
    ELSE LET p == PARENT(i) IN
         IF type = HEAP_BETTER_TOP
         THEN IF is_better_match(At(a, i).distance, At(a, p).distance)
              THEN SiftUp(Swap(a, i, p), type, p) ELSE a
         ELSE IF ~is_better_match(At(a, i).distance, At(a, p).distance)
              THEN SiftUp(Swap(a, i, p), type, p) ELSE a

\* heapify_up that leaves the new element in the last slot
heapify_up_noop(h) == h

heapify_up(h) == IF h.e = 0 THEN h ELSE [h EXCEPT !.heap = SiftUp(h.heap, h.type, h.e - 1)]

\* heap_peek that reports the worst value there is in the place of the root
heap_peek_worst(h) == HeapNode(NULL, worst_match_value)

\* heap_peek: the root; callers test heap_size first (HEAP_ERROR_EMPTY otherwise)
heap_peek(h) == At(h.heap, 0)

\* resize_heap that leaves the array as it is
resize_heap_fixed(h) == h

\* resize_heap: only an unbounded heap grows, by doubling
resize_heap(h) == [h EXCEPT !.c_size = 2 * h.c_size]

\* heap_insert returns [rc, h]
heap_insert(h, node) ==
    IF h.e = h.c_size /\ h.c_size = h.m_size
    THEN [rc |-> "HEAP_ERROR_FULL", h |-> h]
    ELSE LET g  == IF h.e = h.c_size THEN resize_heap(h) ELSE h
             g2 == [g EXCEPT !.heap = Append(g.heap, node), !.e = g.e + 1]
         IN [rc |-> "HEAP_SUCCESS", h |-> IF g2.e > 1 THEN heapify_up(g2) ELSE g2]

\* heap_replace returns [rc, h]
heap_replace(h, node) ==
    IF h.e = 0 THEN [rc |-> "HEAP_ERROR_EMPTY", h |-> h]
    ELSE LET g == [h EXCEPT !.heap[1] = node]
         IN [rc |-> "HEAP_SUCCESS", h |-> IF g.e > 1 THEN heapify_down(g) ELSE g]

\* heap_pop returns [rc, h, node]
heap_pop(h) ==
    IF h.e = 0 THEN [rc |-> "HEAP_ERROR_EMPTY", h |-> h, node |-> HeapNode(NULL, 0)]
    ELSE LET top  == At(h.heap, 0)
             last == At(h.heap, h.e - 1)
             a    == IF h.e = 1 THEN <<>>
                     ELSE [SubSeq(h.heap, 1, h.e - 1) EXCEPT ![1] = last]
             g    == [h EXCEPT !.heap = a, !.e = h.e - 1]
         IN [rc |-> "HEAP_SUCCESS", node |-> top,
             h |-> IF g.e = 0 THEN g ELSE heapify_down(g)]

\* heap_insert_or_replace_if_better: insert while not full; when full replace
\* the root only if the new element is better than it, else drop
heap_insert_or_replace_if_better(h, node) ==
    IF ~heap_full(h) THEN heap_insert(h, node)
    ELSE IF h.e > 0 /\ is_better_match(node.distance, heap_peek(h).distance)
         THEN heap_replace(h, node)
         ELSE [rc |-> "HEAP_SUCCESS", h |-> h]

(* ------------------------------------------------------------------- map *)
\* A Map is [map, mapsize, lfactor_thrhold, elements]; map is a function from
\* the indices of the non-empty buckets to their chains (head first), a chain
\* being a sequence of [key, value].
init_map(initial_size, lfactor_thrhold) ==
    [map |-> <<>>, mapsize |-> initial_size,
     lfactor_thrhold |-> lfactor_thrhold, elements |-> 0]

map_hash(m, key) == key % m.mapsize
LOAD_FACTOR(m) == IF m.mapsize = 0 THEN 0 ELSE m.elements \div m.mapsize
Chain(m, i) == IF i \in DOMAIN m.map THEN m.map[i] ELSE <<>>

map_has(m, key) == \E j \in 1..Len(Chain(m, map_hash(m, key))) :
                       Chain(m, map_hash(m, key))[j].key = key

\* position in its chain of the first entry with this key, 0 when absent
ChainPos(c, key) ==
    IF \E j \in 1..Len(c) : c[j].key = key
    THEN CHOOSE j \in 1..Len(c) : c[j].key = key /\ \A k \in 1..(j - 1) : c[k].key # key
    ELSE 0

\* map_get_p: the value of the first entry with this key, NULL when absent
map_get_p(m, key) ==
    LET c == Chain(m, map_hash(m, key))
        j == ChainPos(c, key)
    IN IF j = 0 THEN NULL ELSE c[j].value

SetChain(mm, i, c) ==
    IF c = <<>> THEN [k \in DOMAIN mm \ {i} |-> mm[k]]
    ELSE [k \in DOMAIN mm \cup {i} |-> IF k = i THEN c ELSE mm[k]]

RemoveAt(c, j) == SubSeq(c, 1, j - 1) \o SubSeq(c, j + 1, Len(c))

\* map_remove_p that unlinks the entry and forgets map->elements--
map_remove_p_keeps_count(m, key) ==
    LET i == map_hash(m, key)
        c == Chain(m, i)
        j == ChainPos(c, key)
    IN IF j = 0 THEN [value |-> NULL, m |-> m]
       ELSE [value |-> c[j].value,
             m |-> [m EXCEPT !.map = SetChain(m.map, i, RemoveAt(c, j))]]

\* map_remove_p returns [value, m]: value is NULL when the key is absent
map_remove_p(m, key) ==
    LET i == map_hash(m, key)
        c == Chain(m, i)
        j == ChainPos(c, key)
    IN IF j = 0 THEN [value |-> NULL, m |-> m]
       ELSE [value |-> c[j].value,
             m |-> [m EXCEPT !.map = SetChain(m.map, i, RemoveAt(c, j)),
                             !.elements = m.elements - 1]]

\* map_rehash: every bucket in index order, every chain head first, each entry
\* pushed at the head of its new bucket
RECURSIVE RehashEntries(_, _, _)
RehashEntries(entries, new_map, new_mapsize) ==
    IF entries = <<>> THEN new_map
    ELSE LET curr == Head(entries)
             j == curr.key % new_mapsize
             c == IF j \in DOMAIN new_map THEN new_map[j] ELSE <<>>
         IN RehashEntries(Tail(entries), SetChain(new_map, j, <<curr>> \o c), new_mapsize)

RECURSIVE BucketsInOrder(_, _)
BucketsInOrder(mm, todo) ==
    IF todo = {} THEN <<>>
    ELSE LET i == CHOOSE x \in todo : \A y \in todo : x <= y
         IN mm[i] \o BucketsInOrder(mm, todo \ {i})

\* map_rehash that leaves the buckets as they are
map_rehash_skipped(m, new_mapsize) == m

map_rehash(m, new_mapsize) ==
    [m EXCEPT !.map = RehashEntries(BucketsInOrder(m.map, DOMAIN m.map), <<>>, new_mapsize),
              !.mapsize = new_mapsize]

\* map_insert_p: no duplicate check; the entry goes to the head of its chain
map_insert_p(m, key, value) ==
    LET g == IF LOAD_FACTOR(m) > m.lfactor_thrhold THEN map_rehash(m, m.mapsize * 2) ELSE m
        i == map_hash(g, key)
    IN [g EXCEPT !.map = SetChain(g.map, i, <<[key |-> key, value |-> value]>> \o Chain(g, i)),
                 !.elements = g.elements + 1]

\* Degrees are uint32_t counters that the code reads through (int) casts; a
\* counter is kept as the int those casts yield, so 0 - 1 is -1 (0xFFFFFFFF).
\* The counters of an index of MaxNodes nodes stay far from 2^31.

make_vector(id, tag, src, dims) ==
    [id |-> id, tag |-> tag, vector |-> [i \in 1..ALIGN_DIMS(dims) |-> src[i]]]

\* alloc_graph_node; `level` is the value assign_level(M0) draws
alloc_graph_node(id, tag, vector, dims_aligned, M0, level) ==
    [vector    |-> make_vector(id, tag, vector, dims_aligned),
     level     |-> level,
     alive     |-> 1,
     next      |-> NULL,
     degrees   |-> [l \in 0..level |-> [idegree |-> 0, odegree |-> 0]],
     neighbors |-> [l \in 0..level |->
                      [i \in 1..(IF l = 0 THEN M0 ELSE M0 \div 2) |-> NULL]],
     oob       |-> FALSE]

IDEGREE(nodes, n, l) == nodes[n].degrees[l].idegree
ODEGREE(nodes, n, l) == nodes[n].degrees[l].odegree
\* NEIGHBOR_AT(node, l, i), i counted from 0
NEIGHBOR_AT(nodes, n, l, i) == nodes[n].neighbors[l][i + 1]

\* NEIGHBOR_AT(node, l, i) = v; a store past the array is recorded in oob
SetNeighbor(nodes, n, l, i, v) ==
    IF i + 1 \in DOMAIN nodes[n].neighbors[l]
    THEN [nodes EXCEPT ![n].neighbors[l][i + 1] = v]
    ELSE [nodes EXCEPT ![n].oob = TRUE]

IncO(nodes, n, l) == [nodes EXCEPT ![n].degrees[l].odegree = @ + 1]
DecO(nodes, n, l) == [nodes EXCEPT ![n].degrees[l].odegree = @ - 1]
IncI(nodes, n, l) == [nodes EXCEPT ![n].degrees[l].idegree = @ + 1]
DecI(nodes, n, l) == [nodes EXCEPT ![n].degrees[l].idegree = @ - 1]

VecOf(nodes, n) == nodes[n].vector.vector
IdOf(nodes, n) == nodes[n].vector.id

(* ---------------------------------------------------------- search_layer *)
\* A SearchContext is [query, dims_aligned, filter_alive].
\* The loop state is [C, W, visited, w]: the candidate heap, the result heap,
\* the visited map (keyed by vector id) and the local `w`.
VisitedMapSize == 1000
VisitedMapThreshold == 15

RECURSIVE SL_Seed(_, _, _, _, _, _)
SL_Seed(nodes, sc, ep, i, len, S) ==
    IF i >= len THEN S
    ELSE LET current == ep[i + 1] IN
         IF current # NULL
         THEN LET d  == compare_vectors(VecOf(nodes, current), sc.query, sc.dims_aligned)
                  n  == HeapNode(current, d)
              IN SL_Seed(nodes, sc, ep, i + 1, len,
                     [S EXCEPT !.visited = map_insert_p(S.visited, IdOf(nodes, current), NULL),
                               !.C = heap_insert(S.C, n).h,
                               !.W = IF sc.filter_alive = 0 \/ nodes[current].alive # 0
                                     THEN heap_insert(S.W, n).h ELSE S.W])
         ELSE SL_Seed(nodes, sc, ep, i + 1, len, S)

\* the body of the for loop without the test of the visited map
SL_Visit_again(nodes, sc, neighbor, S) ==
    IF neighbor # NULL
    THEN LET vis == map_insert_p(S.visited, IdOf(nodes, neighbor), NULL)
             d   == compare_vectors(sc.query, VecOf(nodes, neighbor), sc.dims_aligned)
             n   == HeapNode(neighbor, d)
             w1  == IF heap_size(S.W) > 0 THEN heap_peek(S.W) ELSE S.w
             C1  == IF ~heap_full(S.W) \/ is_better_match(d, w1.distance)
                    THEN heap_insert(S.C, n).h ELSE S.C
             W1  == IF sc.filter_alive = 0 \/ nodes[neighbor].alive # 0
                    THEN IF heap_full(S.W)
                         THEN IF is_better_match(n.distance, heap_peek(S.W).distance)
                              THEN heap_replace(S.W, n).h ELSE S.W
                         ELSE heap_insert(S.W, n).h
                    ELSE S.W
             w2  == IF (sc.filter_alive = 0 \/ nodes[neighbor].alive # 0) /\ heap_full(S.W)
                    THEN heap_peek(S.W) ELSE w1
         IN [C |-> C1, W |-> W1, visited |-> vis, w |-> w2]
    ELSE S

\* one neighbor of `current` (the body of the for loop)
SL_Visit(nodes, sc, neighbor, S) ==
    IF neighbor # NULL /\ ~map_has(S.visited, IdOf(nodes, neighbor))
    THEN LET vis == map_insert_p(S.visited, IdOf(nodes, neighbor), NULL)
             d   == compare_vectors(sc.query, VecOf(nodes, neighbor), sc.dims_aligned)
             n   == HeapNode(neighbor, d)
             w1  == IF heap_size(S.W) > 0 THEN heap_peek(S.W) ELSE S.w
             C1  == IF ~heap_full(S.W) \/ is_better_match(d, w1.distance)
                    THEN heap_insert(S.C, n).h ELSE S.C
             W1  == IF sc.filter_alive = 0 \/ nodes[neighbor].alive # 0
                    THEN IF heap_full(S.W)
                         THEN IF is_better_match(n.distance, heap_peek(S.W).distance)
                              THEN heap_replace(S.W, n).h ELSE S.W
                         ELSE heap_insert(S.W, n).h
                    ELSE S.W
             w2  == IF (sc.filter_alive = 0 \/ nodes[neighbor].alive # 0) /\ heap_full(S.W)
                    THEN heap_peek(S.W) ELSE w1
         IN [C |-> C1, W |-> W1, visited |-> vis, w |-> w2]
    ELSE S

RECURSIVE SL_Neighbors(_, _, _, _, _, _)
SL_Neighbors(nodes, sc, current, level, i, S) ==
    IF i >= ODEGREE(nodes, current, level) THEN S
    ELSE SL_Neighbors(nodes, sc, current, level, i + 1,
                      SL_Visit(nodes, sc, NEIGHBOR_AT(nodes, current, level, i), S))

RECURSIVE SL_Loop(_, _, _, _)
SL_Loop(nodes, sc, level, S) ==
    IF heap_size(S.C) = 0 THEN S
    ELSE LET p  == heap_pop(S.C)
             c  == p.node
             w1 == IF heap_size(S.W) > 0 THEN heap_peek(S.W) ELSE S.w
             S1 == [S EXCEPT !.C = p.h, !.w = w1]
         IN IF heap_size(S.W) > 0 /\ heap_full(S.W)
               /\ is_better_match(w1.distance, c.distance)
            THEN S1
            ELSE SL_Loop(nodes, sc, level, SL_Neighbors(nodes, sc, c.value, level, 0, S1))

\* search_layer that admits dead nodes to W whatever sc->filter_alive is
search_layer_unfiltered(nodes, sc, ep, len, ef, level) ==
    LET S0 == [C |-> init_heap(HEAP_BETTER_TOP, NOLIMIT_HEAP),
               W |-> init_heap(HEAP_WORST_TOP, ef),
               visited |-> init_map(VisitedMapSize, VisitedMapThreshold),
               w |-> HeapNode(NULL, 0)]
        all == [sc EXCEPT !.filter_alive = 0]
    IN SL_Loop(nodes, all, level, SL_Seed(nodes, all, ep, 0, len, S0)).W

\* search_layer returns the result heap W
search_layer(nodes, sc, ep, len, ef, level) ==
    LET S0 == [C |-> init_heap(HEAP_BETTER_TOP, NOLIMIT_HEAP),
               W |-> init_heap(HEAP_WORST_TOP, ef),
               visited |-> init_map(VisitedMapSize, VisitedMapThreshold),
               w |-> HeapNode(NULL, 0)]
    IN SL_Loop(nodes, sc, level, SL_Seed(nodes, sc, ep, 0, len, S0)).W

(* ------------------------------------------------------ neighbor selection *)
SELECT_NEIGHBORS_SIMPLE == 0
SELECT_NEIGHBORS_HEURISTIC == 1
HEURISTIC_EXTEND_CANDIDATES == 4
HEURISTIC_KEEP_PRUNED == 8

\* the C operator & on non-negative ints
RECURSIVE BitAnd(_, _)
BitAnd(a, b) ==
    IF a = 0 \/ b = 0 THEN 0
    ELSE (a % 2) * (b % 2) + 2 * BitAnd(a \div 2, b \div 2)

InWMapSize == 500
InWMapThreshold == 20

\* the neighbors of c, for (i = 0; i < ODEGREE(c, level); i++); S is [W, inW]
RECURSIVE SCQ_Neighbors(_, _, _, _, _, _)
SCQ_Neighbors(nodes, sc, c, level, i, S) ==
    IF i >= ODEGREE(nodes, c, level) THEN S
    ELSE LET n == NEIGHBOR_AT(nodes, c, level, i) IN
         IF n # NULL /\ ~map_has(S.inW, IdOf(nodes, n))
         THEN LET dist == compare_vectors(sc.query, VecOf(nodes, n), sc.dims_aligned)
              IN SCQ_Neighbors(nodes, sc, c, level, i + 1,
                     [W   |-> heap_insert(S.W, HeapNode(n, dist)).h,
                      inW |-> map_insert_p(S.inW, IdOf(nodes, n), NULL)])
         ELSE SCQ_Neighbors(nodes, sc, c, level, i + 1, S)

\* set_candidate_queue: empties C into W, adding the neighbors of each
\* candidate when HEURISTIC_EXTEND_CANDIDATES is set; returns W
RECURSIVE SCQ_Loop(_, _, _, _, _, _)
SCQ_Loop(nodes, sc, C, heuristic, level, S) ==
    IF heap_size(C) = 0 THEN S.W
    ELSE LET p  == heap_pop(C)
             S1 == [S EXCEPT !.W = heap_insert(S.W, p.node).h]
         IN IF BitAnd(heuristic, HEURISTIC_EXTEND_CANDIDATES) # 0
            THEN LET c  == p.node.value
                     S2 == [S1 EXCEPT !.inW = map_insert_p(S1.inW, IdOf(nodes, c), NULL)]
                 IN SCQ_Loop(nodes, sc, p.h, heuristic, level,
                             SCQ_Neighbors(nodes, sc, c, level, 0, S2))
            ELSE SCQ_Loop(nodes, sc, p.h, heuristic, level, S1)

set_candidate_queue(nodes, sc, C, W, heuristic, level) ==
    SCQ_Loop(nodes, sc, C, heuristic, level,
             [W |-> W, inW |-> init_map(InWMapSize, InWMapThreshold)])

\* while (heap_size(&W) > 0 && r < M); S is [W, Wd, R]
RECURSIVE SNH_Loop(_, _, _, _, _)
SNH_Loop(nodes, sc, M, heuristic, S) ==
    IF ~(heap_size(S.W) > 0 /\ Len(S.R) < M) THEN S
    ELSE LET p == heap_pop(S.W)
             e == p.node
             accept == \A i \in 1..Len(S.R) :
                 ~is_better_match(compare_vectors(VecOf(nodes, e.value),
                                                  VecOf(nodes, S.R[i].value),
                                                  sc.dims_aligned),
                                  e.distance)
         IN SNH_Loop(nodes, sc, M, heuristic,
                IF accept THEN [S EXCEPT !.W = p.h, !.R = Append(S.R, e)]
                ELSE IF BitAnd(heuristic, HEURISTIC_KEEP_PRUNED) # 0
                     THEN [S EXCEPT !.W = p.h, !.Wd = heap_insert(S.Wd, e).h]
                     ELSE [S EXCEPT !.W = p.h])

\* for (; r < M && heap_size(&Wd) > 0; r++) heap_pop(&Wd, &R[r])
RECURSIVE SNH_Fill(_, _)
SNH_Fill(M, S) ==
    IF ~(Len(S.R) < M /\ heap_size(S.Wd) > 0) THEN S
    ELSE LET p == heap_pop(S.Wd)
         IN SNH_Fill(M, [S EXCEPT !.Wd = p.h, !.R = Append(S.R, p.node)])

\* for (i = 0; i < r; i++) PANIC_IF(heap_insert(C, &R[i]) != HEAP_SUCCESS)
RECURSIVE InsertAll(_, _, _)
InsertAll(C, R, i) ==
    IF i > Len(R) THEN [rc |-> "SUCCESS", h |-> C]
    ELSE LET r == heap_insert(C, R[i])
         IN IF r.rc # "HEAP_SUCCESS" THEN [rc |-> "PANIC", h |-> C]
            ELSE InsertAll(r.h, R, i + 1)

\* select_neighbors_heuristic returns [rc, h]: h is C with the chosen neighbors
select_neighbors_heuristic(nodes, sc, C, M, heuristic, level) ==
    With(set_candidate_queue(nodes, sc, C, init_heap(HEAP_BETTER_TOP, NOLIMIT_HEAP),
                             heuristic, level), LAMBDA W0 :
    With(SNH_Loop(nodes, sc, M, heuristic,
                  [W |-> W0, Wd |-> init_heap(HEAP_BETTER_TOP, NOLIMIT_HEAP), R |-> <<>>]),
         LAMBDA S1 :
    With(IF BitAnd(heuristic, HEURISTIC_KEEP_PRUNED) # 0 THEN SNH_Fill(M, S1) ELSE S1,
         LAMBDA S2 :
    InsertAll([C EXCEPT !.heap = <<>>, !.e = 0], S2.R, 1))))

\* c = heap_size(W) - M; while (c-- > 0) heap_pop(W, NULL)
RECURSIVE PopN(_, _)
PopN(W, c) == IF c <= 0 THEN W ELSE PopN(heap_pop(W).h, c - 1)

\* select_neighbors returns [rc, h]
select_neighbors(nodes, sc, W, M, heuristic, level) ==
    IF heuristic = SELECT_NEIGHBORS_HEURISTIC
    THEN select_neighbors_heuristic(nodes, sc, W, M, heuristic, level)
    ELSE [rc |-> "SUCCESS", h |-> PopN(W, heap_size(W) - M)]

(* ------------------------------------------------------------ connecting *)
\* first loop of the shrink: every out-neighbor of n goes to W and is unlinked;
\* S is [rc, nodes, W]
RECURSIVE BL_Collect(_, _, _, _, _, _)
BL_Collect(sc, n, level, i, o, S) ==
    IF i >= o \/ S.rc # "SUCCESS" THEN S
    ELSE LET c == NEIGHBOR_AT(S.nodes, n, level, i) IN
         IF c = NULL THEN [S EXCEPT !.rc = "PANIC"]
         ELSE LET d == compare_vectors(VecOf(S.nodes, c), VecOf(S.nodes, n), sc.dims_aligned)
                  r == heap_insert(S.W, HeapNode(c, d))
              IN IF r.rc # "HEAP_SUCCESS" THEN [S EXCEPT !.rc = "SYSTEM_ERROR"]
                 ELSE BL_Collect(sc, n, level, i + 1, o,
                        [rc    |-> "SUCCESS",
                         W     |-> r.h,
                         nodes |-> SetNeighbor(DecO(DecI(S.nodes, c, level), n, level),
                                               n, level, i, NULL)])

\* last loop of the shrink: n's out-list is rebuilt from W; S is [rc, nodes, W]
RECURSIVE BL_Rebuild(_, _, _, _, _)
BL_Rebuild(n, level, M, i, S) ==
    IF heap_size(S.W) = 0 THEN S
    ELSE IF i = M THEN [S EXCEPT !.rc = "PANIC"]
    ELSE LET p == heap_pop(S.W)
             c == p.node.value
         IN BL_Rebuild(n, level, M, i + 1,
                [rc    |-> "SUCCESS",
                 W     |-> p.h,
                 nodes |-> IncI(IncO(SetNeighbor(S.nodes, n, level, i, c), n, level), c, level)])

\* backlink_connect_with_shrink returns [rc, nodes]
backlink_connect_with_shrink(nodes, sc, n, e, level, M) ==
    LET o == ODEGREE(nodes, n, level) IN
    IF o < M
    THEN [rc |-> "SUCCESS",
          nodes |-> IncI(IncO(SetNeighbor(nodes, n, level, o, e), n, level), e, level)]
    ELSE With(BL_Collect(sc, n, level, 0, o,
                         [rc |-> "SUCCESS", nodes |-> nodes,
                          W |-> init_heap(HEAP_WORST_TOP, M + 1)]), LAMBDA S1 :
         IF S1.rc # "SUCCESS" THEN [rc |-> S1.rc, nodes |-> S1.nodes]
         ELSE With(heap_insert(S1.W,
                       HeapNode(e, compare_vectors(VecOf(S1.nodes, e), VecOf(S1.nodes, n),
                                                   sc.dims_aligned))), LAMBDA r :
              IF r.rc # "HEAP_SUCCESS" THEN [rc |-> "SYSTEM_ERROR", nodes |-> S1.nodes]
              ELSE With(select_neighbors_heuristic(S1.nodes, sc, r.h, M,
                                                   HEURISTIC_KEEP_PRUNED, level), LAMBDA sel :
                   IF sel.rc # "SUCCESS" THEN [rc |-> sel.rc, nodes |-> S1.nodes]
                   ELSE With(BL_Rebuild(n, level, M, 0,
                                 [rc |-> "SUCCESS", nodes |-> S1.nodes, W |-> sel.h]),
                             LAMBDA S2 : [rc |-> S2.rc, nodes |-> S2.nodes]))))

\* connect_to that stores e itself in e's free slot
connect_to_itself(nodes, sc, e, n, level, M) ==
    LET i == ODEGREE(nodes, e, level) IN
    IF i = M THEN [rc |-> "PANIC", nodes |-> nodes]
    ELSE backlink_connect_with_shrink(
             IncI(IncO(SetNeighbor(nodes, e, level, i, e), e, level), n, level),
             sc, n, e, level, M)

\* connect_to returns [rc, nodes]
connect_to(nodes, sc, e, n, level, M) ==
    LET i == ODEGREE(nodes, e, level) IN
    IF i = M THEN [rc |-> "PANIC", nodes |-> nodes]
    ELSE backlink_connect_with_shrink(
             IncI(IncO(SetNeighbor(nodes, e, level, i, n), e, level), n, level),
             sc, n, e, level, M)

(* ---------------------------------------------------------- graph_insert *)
\* An IndexHNSW is [ef_search, ef_construct, M0, top_level, elements, dims,
\* dims_aligned, gentry, head].
\* greedy descent with ef = 1 from level i down to level `stop` + 1;
\* returns [rc, ep]
RECURSIVE Descend(_, _, _, _, _)
Descend(nodes, sc, ep, i, stop) ==
    IF i <= stop THEN [rc |-> "SUCCESS", ep |-> ep]
    ELSE With(search_layer(nodes, sc, <<ep>>, 1, 1, i), LAMBDA W :
         IF heap_size(W) # 1 THEN [rc |-> "PANIC", ep |-> ep]
         ELSE Descend(nodes, sc, heap_pop(W).node.value, i - 1, stop))

\* while (heap_size(&W) > 0) { pop; entry[e] = ...; connect_to(node, entry[e]) };
\* S is [rc, nodes, W, entry]
RECURSIVE GI_Connect(_, _, _, _, _)
GI_Connect(sc, node, i, m, S) ==
    IF heap_size(S.W) = 0 \/ S.rc # "SUCCESS" THEN S
    ELSE LET p == heap_pop(S.W) IN
         With(connect_to(S.nodes, sc, node, p.node.value, i, m), LAMBDA c :
         GI_Connect(sc, node, i, m,
             [rc |-> c.rc, nodes |-> c.nodes, W |-> p.h,
              entry |-> Append(S.entry, p.node.value)]))

\* for ( ; i >= 0; i--): one layer; S is [rc, nodes, entry]
RECURSIVE GI_Layers(_, _, _, _, _)
GI_Layers(idx, sc, node, i, S) ==
    IF i < 0 \/ S.rc # "SUCCESS" THEN S
    ELSE LET m == IF i = 0 THEN idx.M0 ELSE idx.M0 \div 2 IN
         With(search_layer(S.nodes, sc, S.entry, Len(S.entry), idx.ef_construct, i),
              LAMBDA W :
         With(select_neighbors(S.nodes, sc, W, m,
                  SELECT_NEIGHBORS_HEURISTIC + HEURISTIC_KEEP_PRUNED
                      + HEURISTIC_EXTEND_CANDIDATES, i), LAMBDA sel :
         IF sel.rc # "SUCCESS" THEN [S EXCEPT !.rc = sel.rc]
         ELSE IF heap_size(sel.h) > m THEN [S EXCEPT !.rc = "PANIC"]
         ELSE With(GI_Connect(sc, node, i, m,
                       [rc |-> "SUCCESS", nodes |-> S.nodes, W |-> sel.h, entry |-> <<>>]),
                   LAMBDA c :
              GI_Layers(idx, sc, node, i - 1,
                        [rc |-> c.rc, nodes |-> c.nodes, entry |-> c.entry]))))

Min(a, b) == IF a < b THEN a ELSE b

\* the first step of graph_insert on a non-empty index: the node is linked at
\* the head of the forward list
graph_insert_link(idx, nodes, node) ==
    [idx |-> [idx EXCEPT !.head = node],
     nodes |-> [nodes EXCEPT ![node].next = idx.head]]

\* the rest of graph_insert on a non-empty index: descent, connection at every
\* layer, element count and entry point; returns [rc, idx, nodes]
graph_insert_connect(idx, nodes, node) ==
    LET sc == [query |-> VecOf(nodes, node), dims_aligned |-> idx.dims_aligned,
               filter_alive |-> 0]
    IN With(Descend(nodes, sc, idx.gentry, idx.top_level, nodes[node].level), LAMBDA d :
       IF d.rc # "SUCCESS" THEN [rc |-> d.rc, idx |-> idx, nodes |-> nodes]
       ELSE With(GI_Layers(idx, sc, node, Min(idx.top_level, nodes[node].level),
                           [rc |-> "SUCCESS", nodes |-> nodes, entry |-> <<d.ep>>]),
                 LAMBDA L :
            IF L.rc # "SUCCESS" THEN [rc |-> L.rc, idx |-> idx, nodes |-> L.nodes]
            ELSE [rc |-> "SUCCESS", nodes |-> L.nodes,
                  idx |-> IF nodes[node].level > idx.top_level
                          THEN [idx EXCEPT !.elements = idx.elements + 1,
                                           !.gentry = node,
                                           !.top_level = nodes[node].level]
                          ELSE [idx EXCEPT !.elements = idx.elements + 1]]))

\* graph_insert that leaves top_level alone on an empty index
graph_insert_keeps_top(idx, nodes, node) ==
    IF idx.elements = 0
    THEN [rc |-> "SUCCESS", nodes |-> nodes,
          idx |-> [idx EXCEPT !.elements = idx.elements + 1, !.gentry = node,
                              !.head = node]]
    ELSE LET l == graph_insert_link(idx, nodes, node)
         IN graph_insert_connect(l.idx, l.nodes, node)

\* graph_insert returns [rc, idx, nodes]
graph_insert(idx, nodes, node) ==
    IF idx.elements = 0
    THEN [rc |-> "SUCCESS", nodes |-> nodes,
          idx |-> [idx EXCEPT !.elements = idx.elements + 1, !.gentry = node,
                              !.head = node, !.top_level = nodes[node].level]]
    ELSE LET l == graph_insert_link(idx, nodes, node)
         IN graph_insert_connect(l.idx, l.nodes, node)

(* ---------------------------------------------------------------- search *)
\* A MatchResult is [id, distance].  Stale is what a slot of the caller's
\* result buffer holds before the call: a value no search writes.
Stale == [id |-> -1, distance |-> -1]
StaleBuffer(n) == [i \in 1..n |-> Stale]

\* for (n = heap_size(&W); n > 0; ...) { pop W; insert R }; returns [rc, h]
RECURSIVE MoveAll(_, _)
MoveAll(W, R) ==
    IF heap_size(W) = 0 THEN [rc |-> "SUCCESS", h |-> R]
    ELSE LET p == heap_pop(W)
             r == heap_insert(R, p.node)
         IN IF r.rc # "HEAP_SUCCESS" THEN [rc |-> "PANIC", h |-> R]
            ELSE MoveAll(p.h, r.h)

\* ef of the level-0 search taken as the larger of ef_search and 2k
knn_ef_max(idx, k) == IF k * 2 > idx.ef_search THEN k * 2 ELSE idx.ef_search

\* ef of the level-0 search of a k-NN query
knn_ef(idx, k) == IF k > idx.ef_search THEN k * 2 ELSE idx.ef_search

\* graph_knn_search returns [rc, h]: h is R filled with the best k nodes
graph_knn_search(idx, nodes, vector, R, k) ==
    IF heap_cap(R) # k THEN [rc |-> "PANIC", h |-> R]
    ELSE LET sc0 == [query |-> [i \in 1..idx.dims_aligned |-> vector[i]],
                     dims_aligned |-> idx.dims_aligned, filter_alive |-> 0]
             sc1 == [sc0 EXCEPT !.filter_alive = 1]
         IN With(Descend(nodes, sc0, idx.gentry, idx.top_level, 0), LAMBDA d :
            IF d.rc # "SUCCESS" THEN [rc |-> d.rc, h |-> R]
            ELSE With(search_layer(nodes, sc1, <<d.ep>>, 1, knn_ef(idx, k), 0), LAMBDA W :
                 With(select_neighbors(nodes, sc1, W, k, 0, 0), LAMBDA sel :
                 IF heap_size(sel.h) > k THEN [rc |-> "PANIC", h |-> R]
                 ELSE MoveAll(sel.h, R))))

\* the scan of the forward list without the test of the tag mask
RECURSIVE LS_Scan_unfiltered(_, _, _, _, _, _)
LS_Scan_unfiltered(idx, nodes, tag, v, current, heap) ==
    IF current = NULL THEN heap
    ELSE LS_Scan_unfiltered(idx, nodes, tag, v, nodes[current].next,
             heap_insert_or_replace_if_better(heap,
                 HeapNode(current,
                          compare_vectors(VecOf(nodes, current), v, idx.dims_aligned))).h)

\* the scan of the forward list; returns the heap
RECURSIVE LS_Scan(_, _, _, _, _, _)
LS_Scan(idx, nodes, tag, v, current, heap) ==
    IF current = NULL THEN heap
    ELSE LS_Scan(idx, nodes, tag, v, nodes[current].next,
             IF tag = 0 \/ BitAnd(tag, nodes[current].vector.tag) # 0
             THEN heap_insert_or_replace_if_better(heap,
                      HeapNode(current,
                               compare_vectors(VecOf(nodes, current), v, idx.dims_aligned))).h
             ELSE heap)

\* while (k > 0) { pop; result[--k] = ... }
RECURSIVE LS_Emit(_, _, _, _)
LS_Emit(nodes, heap, result, k) ==
    IF k <= 0 THEN result
    ELSE LET p == heap_pop(heap)
         IN LS_Emit(nodes, p.h,
                    [result EXCEPT ![k] = [id |-> IdOf(nodes, p.node.value),
                                           distance |-> p.node.distance]],
                    k - 1)

\* graph_linear_search returns [rc, result]
graph_linear_search(idx, nodes, tag, v, result, n) ==
    IF idx.head = NULL THEN [rc |-> "SUCCESS", result |-> result]
    ELSE LET filled == [i \in 1..n |-> [id |-> NULL_ID, distance |-> worst_match_value]]
         IN With(LS_Scan(idx, nodes, tag, v, idx.head, init_heap(HEAP_WORST_TOP, n)),
                 LAMBDA heap :
            [rc |-> "SUCCESS", result |-> LS_Emit(nodes, heap, filled, heap_size(heap))])

\* for (i = 0; i < n && heap_size(&R) > 0; i++) { pop R; result[i] = ... }
RECURSIVE HS_Emit(_, _, _, _, _)
HS_Emit(nodes, R, result, i, n) ==
    IF ~(i < n /\ heap_size(R) > 0) THEN result
    ELSE LET p == heap_pop(R)
         IN HS_Emit(nodes, p.h,
                    [result EXCEPT ![i + 1] = [id |-> IdOf(nodes, p.node.value),
                                               distance |-> p.node.distance]],
                    i + 1, n)

(* ---------------------------------------------------------- HNSW backend *)
\* hnsw_init
hnsw_init(dims, context) ==
    [ef_search |-> context.ef_search, ef_construct |-> context.ef_construct,
     M0 |-> context.M0, top_level |-> 0, elements |-> 0,
     dims |-> dims, dims_aligned |-> ALIGN_DIMS(dims),
     gentry |-> NULL, head |-> NULL]

\* hnsw_search returns [rc, result]
hnsw_search(idx, nodes, tag, vector, dims, result, n) ==
    IF dims # idx.dims THEN [rc |-> "INVALID_DIMENSIONS", result |-> result]
    ELSE IF tag = 0
    THEN With(graph_knn_search(idx, nodes, vector, init_heap(HEAP_BETTER_TOP, n), n),
              LAMBDA r :
         [rc |-> r.rc,
          result |-> IF r.rc = "SUCCESS" THEN HS_Emit(nodes, r.h, result, 0, n)
                     ELSE result])
    ELSE graph_linear_search(idx, nodes, tag, vector, result, n)

\* Freed is what the arena holds in the place of a node that was freed.
Freed == [freed |-> TRUE]

\* free_graph_node(&node): the node and its vector are freed
free_graph_node(ns, node) == [ns EXCEPT ![node] = Freed]

\* hnsw_insert up to the point where the new node is in the forward list:
\* the dims check, alloc_graph_node and, in graph_insert, either the whole
\* insertion into an empty index or the link at the head of the list.
\* Returns [rc, idx, nodes, ref, more]; more = TRUE when the node is still to
\* be connected.  `level` is the level alloc_graph_node draws.
hnsw_insert_begin(idx, nodes, id, tag, vector, dims, level) ==
    IF dims # idx.dims
    THEN [rc |-> "INVALID_DIMENSIONS", idx |-> idx, nodes |-> nodes, ref |-> NULL,
          more |-> FALSE]
    ELSE LET node == Len(nodes) + 1
             all  == Append(nodes, alloc_graph_node(id, tag, vector, idx.dims_aligned,
                                                    idx.M0, level))
         IN IF idx.elements = 0
            THEN With(graph_insert(idx, all, node), LAMBDA g :
                 [rc |-> g.rc, idx |-> g.idx, nodes |-> g.nodes, ref |-> node,
                  more |-> FALSE])
            ELSE LET l == graph_insert_link(idx, all, node)
                 IN [rc |-> "SUCCESS", idx |-> l.idx, nodes |-> l.nodes, ref |-> node,
                     more |-> TRUE]

\* the rest of hnsw_insert: the node is connected, or freed when graph_insert
\* fails; returns [rc, idx, nodes, ref]
hnsw_insert_end(idx, nodes, node) ==
    With(graph_insert_connect(idx, nodes, node), LAMBDA g :
    [rc |-> g.rc, idx |-> g.idx, ref |-> node,
     nodes |-> IF g.rc = "SYSTEM_ERROR" THEN free_graph_node(g.nodes, node) ELSE g.nodes])

\* hnsw_insert returns [rc, idx, nodes, ref]
hnsw_insert(idx, nodes, id, tag, vector, dims, level) ==
    With(hnsw_insert_begin(idx, nodes, id, tag, vector, dims, level), LAMBDA b :
    IF b.more THEN hnsw_insert_end(b.idx, b.nodes, b.ref)
    ELSE [rc |-> b.rc, idx |-> b.idx, nodes |-> b.nodes, ref |-> b.ref])

\* hnsw_delete that returns SUCCESS and leaves ptr->alive set
hnsw_delete_keeps_alive(nodes, ref) == nodes

\* hnsw_delete that also takes the node off its successor in the forward list
hnsw_delete_unlinks(nodes, ref) == [nodes EXCEPT ![ref].alive = 0, ![ref].next = NULL]

\* hnsw_delete: ptr->alive = 0
hnsw_delete(nodes, ref) == [nodes EXCEPT ![ref].alive = 0]

(* ---------------------------------------------------------------- facade *)
\* A TimeStat is [count, total, last, min, max].
ZeroStat == [count |-> 0, total |-> 0, last |-> 0, min |-> 0, max |-> 0]

\* UPDATE_TIMESTAT(stat, delta)
UPDATE_TIMESTAT(stat, delta) ==
    LET c == stat.count + 1 IN
    [count |-> c, total |-> stat.total + delta, last |-> delta,
     min |-> IF c = 1 THEN delta ELSE IF delta < stat.min THEN delta ELSE stat.min,
     max |-> IF c = 1 THEN delta ELSE IF delta > stat.max THEN delta ELSE stat.max]

\* size(index, &sz): the element count of the id map
size(m) == m.elements
\* contains(index, id)
contains(m, id) == map_has(m, id)

\* The state an operation works on is S = [idx, nodes, map, stats].
\* insert without the map_has check before index->insert
insert_begin_unchecked(S, id, tag, vector, dims, level) ==
    With(hnsw_insert_begin(S.idx, S.nodes, id, tag, vector, dims, level), LAMBDA b :
    [rc |-> b.rc, S |-> [S EXCEPT !.idx = b.idx, !.nodes = b.nodes],
     ref |-> b.ref, more |-> b.more])

\* insert between wrlock and unlock, first part: the duplicate check and
\* hnsw_insert_begin; returns [rc, S, ref, more]
insert_begin(S, id, tag, vector, dims, level) ==
    IF map_has(S.map, id)
    THEN [rc |-> "DUPLICATED_ENTRY", S |-> S, ref |-> NULL, more |-> FALSE]
    ELSE With(hnsw_insert_begin(S.idx, S.nodes, id, tag, vector, dims, level), LAMBDA b :
         [rc |-> b.rc, S |-> [S EXCEPT !.idx = b.idx, !.nodes = b.nodes],
          ref |-> b.ref, more |-> b.more])

\* insert that times the call whatever index->insert returned
insert_register_times_all(S, rc, id, ref, delta) ==
    IF rc = "SUCCESS"
    THEN [rc |-> "SUCCESS",
          S |-> [S EXCEPT !.map = map_insert_p(S.map, id, ref),
                          !.stats.insert = UPDATE_TIMESTAT(S.stats.insert, delta)]]
    ELSE [rc |-> rc,
          S |-> [S EXCEPT !.stats.insert = UPDATE_TIMESTAT(S.stats.insert, delta)]]

\* insert between wrlock and unlock, after index->insert returned rc:
\* on SUCCESS the id is registered in the map and the call is timed
insert_register(S, rc, id, ref, delta) ==
    IF rc = "SUCCESS"
    THEN [rc |-> "SUCCESS",
          S |-> [S EXCEPT !.map = map_insert_p(S.map, id, ref),
                          !.stats.insert = UPDATE_TIMESTAT(S.stats.insert, delta)]]
    ELSE [rc |-> rc, S |-> S]

\* insert between wrlock and unlock, second part; returns [rc, S]
insert_end(S, id, ref, delta) ==
    With(hnsw_insert_end(S.idx, S.nodes, ref), LAMBDA e :
    insert_register([S EXCEPT !.idx = e.idx, !.nodes = e.nodes], e.rc, id, ref, delta))

\* insert between wrlock and unlock; returns [rc, S]
insert_locked(S, id, tag, vector, dims, level, delta) ==
    With(insert_begin(S, id, tag, vector, dims, level), LAMBDA b :
    IF b.more THEN insert_end(b.S, id, b.ref, delta)
    ELSE insert_register(b.S, b.rc, id, b.ref, delta))

\* delete that marks the node and leaves its entry in the id map
delete_locked_keeps_entry(S, id, delta) ==
    LET ref == map_get_p(S.map, id) IN
    IF ref = NULL THEN [rc |-> "NOT_FOUND_ID", S |-> S]
    ELSE [rc |-> "SUCCESS",
          S |-> [S EXCEPT !.nodes = hnsw_delete(S.nodes, ref),
                          !.stats.delete = UPDATE_TIMESTAT(S.stats.delete, delta)]]

\* delete that reaches UPDATE_TIMESTAT on the NOT_FOUND_ID path too
delete_locked_times_all(S, id, delta) ==
    LET ref == map_get_p(S.map, id) IN
    IF ref = NULL
    THEN [rc |-> "NOT_FOUND_ID",
          S |-> [S EXCEPT !.stats.delete = UPDATE_TIMESTAT(S.stats.delete, delta)]]
    ELSE LET r == map_remove_p(S.map, id)
         IN IF r.value = NULL THEN [rc |-> "PANIC", S |-> S]
            ELSE [rc |-> "SUCCESS",
                  S |-> [S EXCEPT !.nodes = hnsw_delete(S.nodes, ref),
                                  !.map = r.m,
                                  !.stats.delete = UPDATE_TIMESTAT(S.stats.delete, delta)]]

\* delete between wrlock and unlock; returns [rc, S]
delete_locked(S, id, delta) ==
    LET ref == map_get_p(S.map, id) IN
    IF ref = NULL THEN [rc |-> "NOT_FOUND_ID", S |-> S]
    ELSE LET r == map_remove_p(S.map, id)
         IN IF r.value = NULL THEN [rc |-> "PANIC", S |-> S]
            ELSE [rc |-> "SUCCESS",
                  S |-> [S EXCEPT !.nodes = hnsw_delete(S.nodes, ref),
                                  !.map = r.m,
                                  !.stats.delete = UPDATE_TIMESTAT(S.stats.delete, delta)]]

\* search_n that reaches UPDATE_TIMESTAT whatever the backend returned
search_locked_times_all(S, tag, vector, dims, result, n, delta) ==
    With(hnsw_search(S.idx, S.nodes, tag, vector, dims, result, n), LAMBDA r :
    [rc |-> r.rc, result |-> r.result,
     stats |-> [S.stats EXCEPT !.search_n = UPDATE_TIMESTAT(S.stats.search_n, delta)]])

\* search_n between rdlock and unlock; returns [rc, result, stats]
search_locked(S, tag, vector, dims, result, n, delta) ==
    With(hnsw_search(S.idx, S.nodes, tag, vector, dims, result, n), LAMBDA r :
    [rc |-> r.rc, result |-> r.result,
     stats |-> IF r.rc = "SUCCESS"
               THEN [S.stats EXCEPT !.search_n = UPDATE_TIMESTAT(S.stats.search_n, delta)]
               ELSE S.stats])

(* ----------------------------------------------------------------- state *)
VARIABLES
    idx,      \* the IndexHNSW behind index->data
    nodes,    \* the arena of GraphNodes
    map,      \* index->map
    stats,    \* index->stats
    rwlock,   \* index->rwlock: [writer, readers]
    pc,       \* where each thread is in its call
    call,     \* the arguments of each thread's current or last call
    ret,      \* the return value of each thread's last call
    hist,     \* what the callers have seen: [live, n, d], the ids whose insert
              \* returned SUCCESS with no delete returning SUCCESS since, and
              \* the numbers of inserts and deletes that returned SUCCESS
    heap      \* a Heap of its own, outside any index; NULL where there is none

prog == <<idx, nodes, map, stats>>
vars == <<idx, nodes, map, stats, rwlock, pc, call, ret, hist, heap>>

Threads == {1, 2}
\* the thread of the sequential specification
Main == CHOOSE t \in Threads : \A u \in Threads : t <= u

\* the HNSWContext given to alloc_index
InitContext == [ef_search |-> 2, ef_construct |-> 4, M0 |-> 4]

NoCall ==
    [op |-> "none", id |-> 0, tag |-> 0, vector |-> <<>>, level |-> 0, delta |-> 0,
     n |-> 0, ref |-> NULL, mode |-> 0, pre |-> FALSE, over |-> FALSE]

\* alloc_index(HNSW_INDEX, L2NORM, Dims, &InitContext)
Init ==
    /\ idx = hnsw_init(Dims, InitContext)
    /\ nodes = <<>>
    /\ map = init_map(IndexMapSize, IndexMapThreshold)
    /\ stats = [insert |-> ZeroStat, delete |-> ZeroStat, dump |-> ZeroStat,
                search |-> ZeroStat, search_n |-> ZeroStat]
    /\ rwlock = [writer |-> 0, readers |-> {}]
    /\ pc = [t \in Threads |-> "idle"]
    /\ call = [t \in Threads |-> NoCall]
    /\ ret = [t \in Threads |-> "none"]
    /\ hist = [live |-> {}, n |-> 0, d |-> 0]
    /\ heap = NULL

State == [idx |-> idx, nodes |-> nodes, map |-> map, stats |-> stats]

Aborted == \E t \in Threads : ret[t] = "PANIC"
LockFree == rwlock.writer = 0 /\ rwlock.readers = {}
Quiet == ~Aborted /\ LockFree /\ \A t \in Threads : pc[t] = "idle"

\* what the caller of insert learns from its return value
SawInsert(h, id, rc) ==
    IF rc = "SUCCESS" THEN [h EXCEPT !.live = @ \cup {id}, !.n = @ + 1] ELSE h
\* what the caller of delete learns from its return value
SawDelete(h, id, rc) ==
    IF rc = "SUCCESS" THEN [h EXCEPT !.live = @ \ {id}, !.d = @ + 1] ELSE h

\* insert(index, id, vector, dims) as one step of the calling thread
Insert(id, tag, vector, level, delta) ==
    /\ Quiet
    /\ Len(nodes) < MaxNodes
    /\ call' = [call EXCEPT ![Main] = [NoCall EXCEPT !.op = "insert", !.id = id,
                                                      !.vector = vector]]
    /\ IF id = NULL_ID
       THEN /\ ret' = [ret EXCEPT ![Main] = "INVALID_ID"]
            /\ UNCHANGED <<idx, nodes, map, stats, hist>>
       ELSE \E r \in {insert_locked(State, id, tag, vector, Len(vector), level, delta)} :
               /\ ret' = [ret EXCEPT ![Main] = r.rc]
               /\ idx' = r.S.idx
               /\ nodes' = r.S.nodes
               /\ map' = r.S.map
               /\ stats' = r.S.stats
               /\ hist' = SawInsert(hist, id, r.rc)
    /\ UNCHANGED <<heap, rwlock, pc>>

\* delete(index, id) as one step of the calling thread
Delete(id, delta) ==
    /\ Quiet
    /\ call' = [call EXCEPT ![Main] = [NoCall EXCEPT !.op = "delete", !.id = id]]
    /\ IF id = NULL_ID
       THEN /\ ret' = [ret EXCEPT ![Main] = "INVALID_ID"]
            /\ UNCHANGED <<idx, nodes, map, stats, hist>>
       ELSE LET r == delete_locked(State, id, delta)
            IN /\ ret' = [ret EXCEPT ![Main] = r.rc]
               /\ nodes' = r.S.nodes
               /\ map' = r.S.map
               /\ stats' = r.S.stats
               /\ idx' = idx
               /\ hist' = SawDelete(hist, id, r.rc)
    /\ UNCHANGED <<heap, rwlock, pc>>

\* search_n(index, vector, dims, results, n), with the tag mask the backend
\* takes, as one step of the calling thread
Search(tag, vector, n, delta) ==
    /\ Quiet
    /\ stats.search_n.count < MaxSearches
    /\ \E r \in {search_locked(State, tag, vector, Len(vector), StaleBuffer(n), n, delta)} :
          /\ ret' = [ret EXCEPT ![Main] = r.rc]
          /\ stats' = r.stats
    /\ call' = [call EXCEPT ![Main] = [NoCall EXCEPT !.op = "search"]]
    /\ UNCHANGED <<heap, idx, nodes, map, rwlock, pc, hist>>

Next ==
    \/ \E id \in Ids \cup {NULL_ID}, tag \in Tags, v \in GoodVectors \cup {BadVector},
          level \in Levels, delta \in Deltas : Insert(id, tag, v, level, delta)
    \/ \E id \in Ids \cup {NULL_ID}, delta \in Deltas : Delete(id, delta)
    \/ \E tag \in SearchTags, v \in SearchVectors, n \in SearchKs, delta \in Deltas :
          Search(tag, v, n, delta)

Spec == Init /\ [][Next]_vars

(* --------------------------------------------------------------- threads *)
\* pthread_rwlock_wrlock: granted when no thread holds the lock
wrlock(l, t) == [ok |-> l.writer = 0 /\ l.readers = {}, l |-> [l EXCEPT !.writer = t]]
\* pthread_rwlock_rdlock: granted when no writer holds the lock
rdlock(l, t) == [ok |-> l.writer = 0, l |-> [l EXCEPT !.readers = @ \cup {t}]]
\* an unlock that leaves the lock with the thread that holds it
unlock_keeps(l, t) == l

\* pthread_rwlock_unlock
unlock(l, t) ==
    [writer |-> IF l.writer = t THEN 0 ELSE l.writer, readers |-> l.readers \ {t}]

\* an insert that takes the lock shared
insert_lock_shared(l, t) == rdlock(l, t)

\* the lock each operation takes
insert_lock(l, t) == wrlock(l, t)
delete_lock(l, t) == wrlock(l, t)
update_icontext_lock(l, t) == wrlock(l, t)
search_lock(l, t) == rdlock(l, t)

HNSW_CONTEXT == 1
HNSW_CONTEXT_SET_EF_CONSTRUCT == 4
HNSW_CONTEXT_SET_EF_SEARCH == 8
HNSW_CONTEXT_SET_M0 == 16

\* hnsw_update_icontext without the test of the HNSW_CONTEXT bit
hnsw_update_icontext_unguarded(index, ctx, mode) ==
    [index EXCEPT
        !.ef_construct = IF BitAnd(mode, HNSW_CONTEXT_SET_EF_CONSTRUCT) # 0
                         THEN ctx.ef_construct ELSE @,
        !.ef_search = IF BitAnd(mode, HNSW_CONTEXT_SET_EF_SEARCH) # 0
                      THEN ctx.ef_search ELSE @,
        !.M0 = IF BitAnd(mode, HNSW_CONTEXT_SET_M0) # 0 THEN ctx.M0 ELSE @]

\* hnsw_update_icontext
hnsw_update_icontext(index, ctx, mode) ==
    IF BitAnd(mode, HNSW_CONTEXT) # 0
    THEN [index EXCEPT
            !.ef_construct = IF BitAnd(mode, HNSW_CONTEXT_SET_EF_CONSTRUCT) # 0
                             THEN ctx.ef_construct ELSE @,
            !.ef_search = IF BitAnd(mode, HNSW_CONTEXT_SET_EF_SEARCH) # 0
                          THEN ctx.ef_search ELSE @,
            !.M0 = IF BitAnd(mode, HNSW_CONTEXT_SET_M0) # 0 THEN ctx.M0 ELSE @]
    ELSE index

\* the calls the threads of the concurrent specification make
MTIds == Ids
MTTags == {1}
MTVectors == {MkVec(0)}
MTLevels == {0, 1}
MTQueryTags == {0, 1}
MTKs == {1}
MTContext == [ef_search |-> 3, ef_construct |-> 4, M0 |-> 4]
MTModes == {HNSW_CONTEXT + HNSW_CONTEXT_SET_EF_SEARCH}

\* the threads between the call of an operation and its return
InFlight(op) == {t \in Threads : pc[t] # "idle" /\ call[t].op = op}

\* thread t starts the call c; a call that was in flight together with t's
\* previous call is no longer paired with it
Begin(t, c) ==
    [u \in Threads |-> IF u = t THEN c ELSE [call[u] EXCEPT !.over = FALSE]]

\* insert called: the id check, made before the lock is taken
InsertCall(t, id, tag, vector, level, delta) ==
    /\ ~Aborted
    /\ pc[t] = "idle"
    /\ Len(nodes) + Cardinality({u \in InFlight("insert") : pc[u] # "unlock"}) < MaxNodes
    /\ call' = Begin(t, [NoCall EXCEPT
                            !.op = "insert", !.id = id, !.tag = tag, !.vector = vector,
                            !.level = level, !.delta = delta,
                            !.pre = ~contains(map, id),
                            !.over = \E u \in InFlight("insert") : call[u].id = id])
    /\ IF id = NULL_ID
       THEN ret' = [ret EXCEPT ![t] = "INVALID_ID"] /\ pc' = pc
       ELSE ret' = [ret EXCEPT ![t] = "pending"]
            /\ pc' = [pc EXCEPT ![t] = "insert_lock"]
    /\ UNCHANGED <<heap, idx, nodes, map, stats, rwlock, hist>>

\* pthread_rwlock_wrlock in insert
InsertLock(t) ==
    /\ pc[t] = "insert_lock"
    /\ insert_lock(rwlock, t).ok
    /\ rwlock' = insert_lock(rwlock, t).l
    /\ pc' = [pc EXCEPT ![t] = "insert_begin"]
    /\ UNCHANGED <<heap, idx, nodes, map, stats, call, ret, hist>>

\* insert under the lock, up to the node being linked in the forward list
InsertBegin(t) ==
    /\ pc[t] = "insert_begin"
    /\ \E b \in {insert_begin(State, call[t].id, call[t].tag, call[t].vector,
                             Len(call[t].vector), call[t].level)} :
       \E r \in {insert_register(b.S, b.rc, call[t].id, b.ref, call[t].delta)} :
          IF b.more
          THEN /\ idx' = b.S.idx /\ nodes' = b.S.nodes
               /\ call' = [call EXCEPT ![t].ref = b.ref]
               /\ pc' = [pc EXCEPT ![t] = "insert_end"]
               /\ UNCHANGED <<map, stats, ret>>
          ELSE /\ idx' = r.S.idx /\ nodes' = r.S.nodes
               /\ map' = r.S.map /\ stats' = r.S.stats
               /\ ret' = [ret EXCEPT ![t] = r.rc]
               /\ pc' = [pc EXCEPT ![t] = "unlock"]
               /\ call' = call
    /\ UNCHANGED <<heap, rwlock, hist>>

\* insert under the lock, from the linked node to the registered id
InsertEnd(t) ==
    /\ pc[t] = "insert_end"
    /\ \E e \in {insert_end(State, call[t].id, call[t].ref, call[t].delta)} :
          /\ idx' = e.S.idx /\ nodes' = e.S.nodes
          /\ map' = e.S.map /\ stats' = e.S.stats
          /\ ret' = [ret EXCEPT ![t] = e.rc]
    /\ pc' = [pc EXCEPT ![t] = "unlock"]
    /\ UNCHANGED <<heap, rwlock, call, hist>>

\* delete called
DeleteCall(t, id, delta) ==
    /\ ~Aborted
    /\ pc[t] = "idle"
    /\ call' = Begin(t, [NoCall EXCEPT !.op = "delete", !.id = id, !.delta = delta])
    /\ IF id = NULL_ID
       THEN ret' = [ret EXCEPT ![t] = "INVALID_ID"] /\ pc' = pc
       ELSE ret' = [ret EXCEPT ![t] = "pending"]
            /\ pc' = [pc EXCEPT ![t] = "delete_lock"]
    /\ UNCHANGED <<heap, idx, nodes, map, stats, rwlock, hist>>

\* pthread_rwlock_wrlock in delete
DeleteLock(t) ==
    /\ pc[t] = "delete_lock"
    /\ delete_lock(rwlock, t).ok
    /\ rwlock' = delete_lock(rwlock, t).l
    /\ pc' = [pc EXCEPT ![t] = "delete_body"]
    /\ UNCHANGED <<heap, idx, nodes, map, stats, call, ret, hist>>

\* delete under the lock
DeleteBody(t) ==
    /\ pc[t] = "delete_body"
    /\ LET r == delete_locked(State, call[t].id, call[t].delta)
       IN /\ nodes' = r.S.nodes /\ map' = r.S.map /\ stats' = r.S.stats
          /\ ret' = [ret EXCEPT ![t] = r.rc]
    /\ pc' = [pc EXCEPT ![t] = "unlock"]
    /\ UNCHANGED <<heap, idx, rwlock, call, hist>>

\* search_n called
SearchCall(t, tag, vector, n, delta) ==
    /\ ~Aborted
    /\ pc[t] = "idle"
    /\ stats.search_n.count + Cardinality(InFlight("search")) < MaxSearches
    /\ call' = Begin(t, [NoCall EXCEPT !.op = "search", !.tag = tag, !.vector = vector,
                                        !.n = n, !.delta = delta])
    /\ ret' = [ret EXCEPT ![t] = "pending"]
    /\ pc' = [pc EXCEPT ![t] = "search_lock"]
    /\ UNCHANGED <<heap, idx, nodes, map, stats, rwlock, hist>>

\* pthread_rwlock_rdlock in search_n
SearchLock(t) ==
    /\ pc[t] = "search_lock"
    /\ search_lock(rwlock, t).ok
    /\ rwlock' = search_lock(rwlock, t).l
    /\ pc' = [pc EXCEPT ![t] = "search_body"]
    /\ UNCHANGED <<heap, idx, nodes, map, stats, call, ret, hist>>

\* search_n under the lock
SearchBody(t) ==
    /\ pc[t] = "search_body"
    /\ \E r \in {search_locked(State, call[t].tag, call[t].vector, Len(call[t].vector),
                              StaleBuffer(call[t].n), call[t].n, call[t].delta)} :
          /\ stats' = r.stats
          /\ ret' = [ret EXCEPT ![t] = r.rc]
    /\ pc' = [pc EXCEPT ![t] = "unlock"]
    /\ UNCHANGED <<heap, idx, nodes, map, rwlock, call, hist>>

\* update_icontext called
ContextCall(t, mode) ==
    /\ ~Aborted
    /\ pc[t] = "idle"
    /\ call' = Begin(t, [NoCall EXCEPT !.op = "update_icontext", !.mode = mode])
    /\ ret' = [ret EXCEPT ![t] = "pending"]
    /\ pc' = [pc EXCEPT ![t] = "context_lock"]
    /\ UNCHANGED <<heap, idx, nodes, map, stats, rwlock, hist>>

\* pthread_rwlock_wrlock in update_icontext
ContextLock(t) ==
    /\ pc[t] = "context_lock"
    /\ update_icontext_lock(rwlock, t).ok
    /\ rwlock' = update_icontext_lock(rwlock, t).l
    /\ pc' = [pc EXCEPT ![t] = "context_body"]
    /\ UNCHANGED <<heap, idx, nodes, map, stats, call, ret, hist>>

\* update_icontext under the lock
ContextBody(t) ==
    /\ pc[t] = "context_body"
    /\ idx' = hnsw_update_icontext(idx, MTContext, call[t].mode)
    /\ ret' = [ret EXCEPT ![t] = "SUCCESS"]
    /\ pc' = [pc EXCEPT ![t] = "unlock"]
    /\ UNCHANGED <<heap, nodes, map, stats, rwlock, call, hist>>

\* pthread_rwlock_unlock and the return to the caller
Unlock(t) ==
    /\ pc[t] = "unlock"
    /\ rwlock' = unlock(rwlock, t)
    /\ pc' = [pc EXCEPT ![t] = "idle"]
    /\ hist' = IF call[t].op = "insert" THEN SawInsert(hist, call[t].id, ret[t])
               ELSE IF call[t].op = "delete" THEN SawDelete(hist, call[t].id, ret[t])
               ELSE hist
    /\ UNCHANGED <<heap, idx, nodes, map, stats, call, ret>>

NextMT ==
    \E t \in Threads :
        \/ \E id \in MTIds \cup {NULL_ID}, tag \in MTTags, v \in MTVectors,
              level \in MTLevels, delta \in Deltas : InsertCall(t, id, tag, v, level, delta)
        \/ InsertLock(t)
        \/ InsertBegin(t)
        \/ InsertEnd(t)
        \/ \E id \in MTIds \cup {NULL_ID}, delta \in Deltas : DeleteCall(t, id, delta)
        \/ DeleteLock(t)
        \/ DeleteBody(t)
        \/ \E tag \in MTQueryTags, v \in MTVectors, n \in MTKs, delta \in Deltas :
              SearchCall(t, tag, v, n, delta)
        \/ SearchLock(t)
        \/ SearchBody(t)
        \/ \E mode \in MTModes : ContextCall(t, mode)
        \/ ContextLock(t)
        \/ ContextBody(t)
        \/ Unlock(t)

SpecMT == Init /\ [][NextMT]_vars

\* the threads calling with one id, one vector and one level, so that inserts
\* meet DUPLICATED_ENTRY and deletes meet NOT_FOUND_ID under the lock
NextLock ==
    \E t \in Threads :
        \/ \E delta \in Deltas : InsertCall(t, 1, 1, MkVec(0), 0, delta)
        \/ InsertLock(t)
        \/ InsertBegin(t)
        \/ InsertEnd(t)
        \/ \E delta \in Deltas : DeleteCall(t, 1, delta)
        \/ DeleteLock(t)
        \/ DeleteBody(t)
        \/ \E v \in MTVectors \cup {BadVector}, delta \in Deltas :
              SearchCall(t, 0, v, 1, delta)
        \/ SearchLock(t)
        \/ SearchBody(t)
        \/ \E mode \in MTModes : ContextCall(t, mode)
        \/ ContextLock(t)
        \/ ContextBody(t)
        \/ Unlock(t)

\* the scheduling of the threads.  A thread inside its call takes its next
\* step; pthread_rwlock_rdlock and pthread_rwlock_wrlock return to a thread
\* for which the lock is free again and again.  InsertEnd and SearchBody have
\* no guard but pc[t] and always move it, so their weak fairness is that no
\* thread stays at their pc forever.
Proceed(t) == InsertBegin(t) \/ DeleteBody(t) \/ ContextBody(t) \/ Unlock(t)
Acquire(t) == InsertLock(t) \/ DeleteLock(t) \/ SearchLock(t) \/ ContextLock(t)
FairLock ==
    \A t \in Threads :
        /\ WF_vars(Proceed(t))
        /\ SF_vars(Acquire(t))
        /\ []<>(pc[t] \notin {"insert_end", "search_body"})
SpecLock == Init /\ [][NextLock]_vars /\ FairLock

(* ------------------------------------------- update_icontext, sequential *)
\* the HNSWContext and the modes the sequential caller passes: every
\* combination of the four flag bits
NewContext == [ef_search |-> 3, ef_construct |-> 3, M0 |-> 2]
Modes ==
    {a + b + c + d : a \in {0, HNSW_CONTEXT}, b \in {0, HNSW_CONTEXT_SET_EF_CONSTRUCT},
                     c \in {0, HNSW_CONTEXT_SET_EF_SEARCH}, d \in {0, HNSW_CONTEXT_SET_M0}}

\* update_icontext(index, &NewContext, mode) as one step of the calling thread
UpdateContext(mode) ==
    /\ Quiet
    /\ call' = [call EXCEPT ![Main] = [NoCall EXCEPT !.op = "update_icontext",
                                                      !.mode = mode]]
    /\ idx' = hnsw_update_icontext(idx, NewContext, mode)
    /\ ret' = [ret EXCEPT ![Main] = "SUCCESS"]
    /\ UNCHANGED <<heap, nodes, map, stats, rwlock, pc, hist>>

\* the sequential caller that also updates the context: its inserts carry one
\* tag and vectors of the index's dims
NextCtx ==
    \/ \E id \in Ids, v \in GoodVectors, level \in Levels, delta \in Deltas :
          Insert(id, 1, v, level, delta)
    \/ \E id \in Ids, delta \in Deltas : Delete(id, delta)
    \/ \E mode \in Modes : UpdateContext(mode)

SpecCtx == Init /\ [][NextCtx]_vars

(* ------------------------------------------------------ dump, sequential *)
\* hnsw_functions leaves index->dump NULL
hnsw_has_dump == FALSE

\* dump(index, filename): the test of index->dump comes before the lock and
\* the timing; backend_rc is what index->dump returns and store_rc what
\* store_dump_file returns; returns [rc, stats]
dump(st, has_dump, backend_rc, store_rc, delta) ==
    IF ~has_dump THEN [rc |-> "NOT_IMPLEMENTED", stats |-> st]
    ELSE IF backend_rc # "SUCCESS" THEN [rc |-> backend_rc, stats |-> st]
    ELSE IF store_rc # "SUCCESS" THEN [rc |-> store_rc, stats |-> st]
    ELSE [rc |-> "SUCCESS", stats |-> [st EXCEPT !.dump = UPDATE_TIMESTAT(st.dump, delta)]]

\* dump(index, filename) as one step of the calling thread
Dump(delta) ==
    /\ Quiet
    /\ call' = [call EXCEPT ![Main] = [NoCall EXCEPT !.op = "dump"]]
    /\ ret' = [ret EXCEPT ![Main] =
                  dump(stats, hnsw_has_dump, "SUCCESS", "SUCCESS", delta).rc]
    /\ stats' = dump(stats, hnsw_has_dump, "SUCCESS", "SUCCESS", delta).stats
    /\ UNCHANGED <<heap, idx, nodes, map, rwlock, pc, hist>>

\* the sequential caller that also dumps
NextStats ==
    \/ Next
    \/ \E delta \in Deltas : Dump(delta)

SpecStats == Init /\ [][NextStats]_vars

(* ----------------------------------------------------------------- store *)
FLAT_INDEX == 0
HNSW_INDEX == 3
VEC_MAGIC == 1179406336
FLT_MAGIC == 1179407433
HNSW_MAGIC == 1213092695
\* the value of io->method: cmp->type of the L2NORM method
L2NORM == 0

\* index_to_magic(itype): 0 stands for the abort of its default case
index_to_magic(itype) ==
    IF itype = FLAT_INDEX THEN FLT_MAGIC
    ELSE IF itype = HNSW_INDEX THEN HNSW_MAGIC
    ELSE 0

\* magic_to_index(magic)
magic_to_index(magic) ==
    IF magic = FLT_MAGIC THEN FLAT_INDEX
    ELSE IF magic = HNSW_MAGIC THEN HNSW_INDEX
    ELSE -1

\* An IOContext is [itype, elements, dims, dims_aligned, method, vectors];
\* vectors is the array of Vector records, i = 0 first.  A file is
\* [hdr, vectors]: the StoreHDR and the vector section.
\* the IOContext the export and dump functions of a backend fill from its
\* list of vectors, head of the list first
io_of(itype, elements, dims, dims_aligned, vectors) ==
    [itype |-> itype, elements |-> elements, dims |-> dims,
     dims_aligned |-> dims_aligned, method |-> L2NORM, vectors |-> vectors]

\* store_dump_file returns [rc, file]: it aborts on an itype that is no index
\* type, and writes io->elements vectors and the header
store_dump_file(io) ==
    IF index_to_magic(io.itype) = 0 THEN [rc |-> "PANIC", file |-> <<>>]
    ELSE [rc |-> "SUCCESS",
          file |-> [hdr |-> [magic |-> index_to_magic(io.itype), elements |-> io.elements,
                             dims |-> io.dims, dims_aligned |-> io.dims_aligned,
                             method |-> io.method, only_vectors |-> 1],
                    vectors |-> SubSeq(io.vectors, 1, io.elements)]]

\* store_load_file returns [rc, io]
store_load_file(file) ==
    IF magic_to_index(file.hdr.magic) = -1 THEN [rc |-> "INVALID_FILE", io |-> <<>>]
    ELSE [rc |-> "SUCCESS",
          io |-> io_of(magic_to_index(file.hdr.magic), file.hdr.elements, file.hdr.dims,
                       file.hdr.dims_aligned,
                       [i \in 1..file.hdr.elements |-> file.vectors[i]])]

\* the vectors of the nodes of a list, from n along ->next
RECURSIVE VectorsFrom(_, _)
VectorsFrom(ns, n) ==
    IF n = NULL THEN <<>> ELSE <<ns[n].vector>> \o VectorsFrom(ns, ns[n].next)

\* the function __DEFINE_EXPORT_FN defines; returns [rc, io].  io_init
\* allocates idx->elements slots, which calloc may refuse when there are none;
\* the walk aborts on a list longer than that.
export_fn(index, ns, calloc0) ==
    IF index.elements = 0 /\ ~calloc0 THEN [rc |-> "SYSTEM_ERROR", io |-> <<>>]
    ELSE IF Len(VectorsFrom(ns, index.head)) > index.elements
    THEN [rc |-> "PANIC", io |-> <<>>]
    ELSE [rc |-> "SUCCESS",
          io |-> io_of(VEC_MAGIC, index.elements, index.dims, index.dims_aligned,
                       VectorsFrom(ns, index.head))]

\* export(index, filename) between rdlock and unlock; returns [rc, file]
export(index, ns, calloc0) ==
    With(export_fn(index, ns, calloc0), LAMBDA e :
    IF e.rc # "SUCCESS" THEN [rc |-> e.rc, file |-> <<>>]
    ELSE store_dump_file(e.io))

(* ------------------------------------------------------ import into HNSW *)
\* the import modes
IMPORT_OVERWITE == "OVERWRITE"
IMPORT_IGNORE == "IGNORE"
IMPORT_IGNORE_VERBOSE == "IGNORE_VERBOSE"
ImportModes == {IMPORT_OVERWITE, IMPORT_IGNORE, IMPORT_IGNORE_VERBOSE}

\* the loop of hnsw_import over io->vectors from i on; S is [rc, idx, nodes,
\* map, i]; levels[i] is the level alloc_graph_node draws for vector i
RECURSIVE HI_Loop(_, _, _, _)
HI_Loop(io, mode, levels, S) ==
    IF S.i > io.elements \/ S.rc # "SUCCESS" THEN S
    ELSE IF map_has(S.map, io.vectors[S.i].id) /\ mode # IMPORT_OVERWITE
    THEN HI_Loop(io, mode, levels, [S EXCEPT !.i = S.i + 1])
    ELSE With(IF map_has(S.map, io.vectors[S.i].id)
              THEN [S EXCEPT !.nodes = hnsw_delete(S.nodes,
                                           map_get_p(S.map, io.vectors[S.i].id)),
                             !.map = map_remove_p(S.map, io.vectors[S.i].id).m]
              ELSE S, LAMBDA T :
         With(graph_insert(T.idx,
                  Append(T.nodes,
                         [alloc_graph_node(NULL_ID, 0, io.vectors[S.i].vector, 0, T.idx.M0,
                                           levels[S.i])
                          EXCEPT !.vector = io.vectors[S.i]]),
                  Len(T.nodes) + 1), LAMBDA g :
         IF g.rc # "SUCCESS" THEN [T EXCEPT !.rc = "SYSTEM_ERROR"]
         ELSE HI_Loop(io, mode, levels,
                  [rc |-> "SUCCESS", idx |-> g.idx, nodes |-> g.nodes,
                   map |-> map_insert_p(T.map, io.vectors[S.i].id, Len(T.nodes) + 1),
                   i |-> S.i + 1])))

\* hnsw_import returns [rc, idx, nodes, map, i]
hnsw_import(index, ns, m, io, mode, levels) ==
    IF io.dims # index.dims \/ io.dims_aligned # index.dims_aligned
    THEN [rc |-> "INVALID_DIMENSIONS", idx |-> index, nodes |-> ns, map |-> m, i |-> 1]
    ELSE HI_Loop(io, mode, levels,
                 [rc |-> "SUCCESS", idx |-> index, nodes |-> ns, map |-> m, i |-> 1])

\* import(index, filename, mode): store_load_file, then index->import under
\* the write lock; returns [rc, idx, nodes, map]
import(index, ns, m, file, mode, levels) ==
    With(store_load_file(file), LAMBDA l :
    IF l.rc # "SUCCESS" THEN [rc |-> l.rc, idx |-> index, nodes |-> ns, map |-> m]
    ELSE With(hnsw_import(index, ns, m, l.io, mode, levels), LAMBDA r :
         [rc |-> r.rc, idx |-> r.idx, nodes |-> r.nodes, map |-> r.map]))

\* the files the caller imports: dumps of flat indexes of dims FileDims that
\* hold MaxFile vectors at most, with distinct ids and no tag
MaxFile == 2
FileDims == {Dims, 2 * Dims}
FileVectors == {[id |-> id, tag |-> 0, vector |-> v] : id \in Ids, v \in GoodVectors}
Files ==
    {[hdr |-> [magic |-> FLT_MAGIC, elements |-> Len(vs), dims |-> d,
               dims_aligned |-> ALIGN_DIMS(d), method |-> L2NORM, only_vectors |-> 1],
      vectors |-> vs] :
        vs \in {s \in UNION {[1..n -> FileVectors] : n \in 1..MaxFile} :
                   \A i, j \in 1..Len(s) : i # j => s[i].id # s[j].id},
        d \in FileDims}

\* import(index, filename, mode) as one step of the calling thread
Import(file, mode, levels) ==
    /\ Quiet
    /\ Len(nodes) < MaxNodes
    /\ call' = [call EXCEPT ![Main] = [NoCall EXCEPT !.op = "import", !.mode = mode,
                                                      !.vector = file]]
    /\ \E r \in {import(idx, nodes, map, file, mode, levels)} :
          /\ ret' = [ret EXCEPT ![Main] = r.rc]
          /\ idx' = r.idx
          /\ nodes' = r.nodes
          /\ map' = r.map
    /\ UNCHANGED <<heap, stats, rwlock, pc, hist>>

\* export(index, filename) as one step of the calling thread
Export(calloc0) ==
    /\ Quiet
    /\ call' = [call EXCEPT ![Main] = [NoCall EXCEPT !.op = "export"]]
    /\ ret' = [ret EXCEPT ![Main] = export(idx, nodes, calloc0).rc]
    /\ UNCHANGED <<heap, idx, nodes, map, stats, rwlock, pc, hist>>

\* the sequential caller that also imports and exports: its inserts carry
\* one tag and vectors of the index's dims
NextIO ==
    \/ \E id \in Ids, v \in GoodVectors, level \in Levels, delta \in Deltas :
          Insert(id, 1, v, level, delta)
    \/ \E id \in Ids, delta \in Deltas : Delete(id, delta)
    \/ \E file \in Files, mode \in ImportModes, levels \in [1..MaxFile -> Levels] :
          Import(file, mode, levels)
    \/ \E calloc0 \in BOOLEAN : Export(calloc0)

SpecIO == Init /\ [][NextIO]_vars

(* ---------------------------------------------------------- flat backend *)
\* An IndexFlat is [head, elements, dims, dims_aligned]; an INodeFlat is
\* [vector, next, prev].  The index and its nodes are held in idx and nodes
\* when index->data is a flat index.
MAP_SUCCESS == 0

\* flat_init
flat_init(dims) ==
    [head |-> NULL, elements |-> 0, dims |-> dims, dims_aligned |-> ALIGN_DIMS(dims)]

\* insert_node(&index->head, node); returns [head, nodes]
insert_node(ns, head, node) ==
    [head |-> node,
     nodes |-> [n \in DOMAIN ns |->
                   IF n = node THEN [ns[n] EXCEPT !.next = head, !.prev = NULL]
                   ELSE IF n = head THEN [ns[n] EXCEPT !.prev = node]
                   ELSE ns[n]]]

\* delete_node(&index->head, node): the node is unlinked and freed with its
\* vector; returns [head, nodes]
delete_node(ns, head, node) ==
    [head |-> IF ns[node].prev # NULL THEN head ELSE ns[node].next,
     nodes |-> [n \in DOMAIN ns |->
                   IF n = node THEN Freed
                   ELSE IF n = ns[node].prev /\ n = ns[node].next
                   THEN [ns[n] EXCEPT !.next = ns[node].next, !.prev = ns[node].prev]
                   ELSE IF n = ns[node].prev THEN [ns[n] EXCEPT !.next = ns[node].next]
                   ELSE IF n = ns[node].next THEN [ns[n] EXCEPT !.prev = ns[node].prev]
                   ELSE ns[n]]]

\* flat_insert returns [rc, idx, nodes, ref]; the flat make_vector takes no tag
flat_insert(index, ns, id, vector, dims) ==
    IF dims # index.dims
    THEN [rc |-> "INVALID_DIMENSIONS", idx |-> index, nodes |-> ns, ref |-> NULL]
    ELSE With(insert_node(Append(ns, [vector |-> make_vector(id, 0, vector, dims),
                                       next |-> NULL, prev |-> NULL]),
                          index.head, Len(ns) + 1), LAMBDA l :
         [rc |-> "SUCCESS", nodes |-> l.nodes, ref |-> Len(ns) + 1,
          idx |-> [index EXCEPT !.head = l.head, !.elements = index.elements + 1]])

\* flat_delete returns [rc, idx, nodes]
flat_delete(index, ns, ref) ==
    With(delete_node(ns, index.head, ref), LAMBDA l :
    [rc |-> "SUCCESS", nodes |-> l.nodes,
     idx |-> [index EXCEPT !.head = l.head, !.elements = index.elements - 1]])

\* the loop of flat_import over io->vectors from i on; S is [rc, idx, nodes,
\* map, i].  In the overwrite case map_remove_p returns the node that was
\* mapped, and the code aborts when that is not MAP_SUCCESS.
RECURSIVE FI_Loop(_, _, _)
FI_Loop(io, mode, S) ==
    IF S.i > io.elements \/ S.rc # "SUCCESS" THEN S
    ELSE IF map_has(S.map, io.vectors[S.i].id) /\ mode # IMPORT_OVERWITE
    THEN FI_Loop(io, mode, [S EXCEPT !.i = S.i + 1])
    ELSE IF map_has(S.map, io.vectors[S.i].id)
            /\ map_remove_p(S.map, io.vectors[S.i].id).value # MAP_SUCCESS
    THEN [S EXCEPT !.rc = "PANIC", !.map = map_remove_p(S.map, io.vectors[S.i].id).m]
    ELSE With(IF map_has(S.map, io.vectors[S.i].id)
              THEN With(flat_delete(S.idx, S.nodes, map_get_p(S.map, io.vectors[S.i].id)),
                        LAMBDA d :
                   [S EXCEPT !.idx = d.idx, !.nodes = d.nodes,
                             !.map = map_remove_p(S.map, io.vectors[S.i].id).m])
              ELSE S, LAMBDA T :
         With(insert_node(Append(T.nodes, [vector |-> io.vectors[S.i], next |-> NULL,
                                           prev |-> NULL]),
                          T.idx.head, Len(T.nodes) + 1), LAMBDA l :
         FI_Loop(io, mode,
                 [rc |-> "SUCCESS", idx |-> [T.idx EXCEPT !.head = l.head],
                  nodes |-> l.nodes,
                  map |-> map_insert_p(T.map, io.vectors[S.i].id, Len(T.nodes) + 1),
                  i |-> S.i + 1])))

\* flat_import returns [rc, idx, nodes, map, i]
flat_import(index, ns, m, io, mode) ==
    IF io.dims # index.dims \/ io.dims_aligned # index.dims_aligned
    THEN [rc |-> "INVALID_DIMENSIONS", idx |-> index, nodes |-> ns, map |-> m, i |-> 1]
    ELSE FI_Loop(io, mode,
                 [rc |-> "SUCCESS", idx |-> index, nodes |-> ns, map |-> m, i |-> 1])

\* flat_dump returns [rc, io]; as in the export function, io_init allocates
\* idx->elements slots and the walk aborts on a longer list
flat_dump(index, ns, calloc0) ==
    IF index.elements = 0 /\ ~calloc0 THEN [rc |-> "SYSTEM_ERROR", io |-> <<>>]
    ELSE IF Len(VectorsFrom(ns, index.head)) > index.elements
    THEN [rc |-> "PANIC", io |-> <<>>]
    ELSE [rc |-> "SUCCESS",
          io |-> io_of(FLAT_INDEX, index.elements, index.dims, index.dims_aligned,
                       VectorsFrom(ns, index.head))]

\* the loop of flat_load: a node for io->vectors[i], linked at the head
RECURSIVE FL_Loop(_, _, _)
FL_Loop(io, i, S) ==
    IF i > io.elements THEN S
    ELSE FL_Loop(io, i + 1,
                 insert_node(Append(S.nodes, [vector |-> io.vectors[i], next |-> NULL,
                                              prev |-> NULL]),
                             S.head, Len(S.nodes) + 1))

\* flat_load returns [idx, nodes]
flat_load(io) ==
    With(FL_Loop(io, 1, [head |-> NULL, nodes |-> <<>>]), LAMBDA l :
    [idx |-> [head |-> l.head, elements |-> io.elements, dims |-> io.dims,
              dims_aligned |-> io.dims_aligned],
     nodes |-> l.nodes])

\* flat_remap: every listed node is registered under its vector's id; the
\* list is walked from n
RECURSIVE flat_remap(_, _, _)
flat_remap(ns, n, m) ==
    IF n = NULL THEN m
    ELSE flat_remap(ns, ns[n].next, map_insert_p(m, ns[n].vector.id, n))

\* what init_map returns for this initial size
init_map_rc(initial_size) == IF initial_size = 0 THEN "INVALID_INIT" ELSE "SUCCESS"

\* load_index returns [rc, idx, nodes, map]; rc is "NULL" when it returns no
\* index: only a file of a flat index is loaded, and its map is initialised
\* with elements / 10 buckets
load_index(file) ==
    With(store_load_file(file), LAMBDA l :
    IF l.rc # "SUCCESS" \/ l.io.itype # FLAT_INDEX
    THEN [rc |-> "NULL", idx |-> <<>>, nodes |-> <<>>, map |-> <<>>]
    ELSE IF init_map_rc(l.io.elements \div 10) # "SUCCESS"
    THEN [rc |-> "NULL", idx |-> <<>>, nodes |-> <<>>, map |-> <<>>]
    ELSE With(flat_load(l.io), LAMBDA f :
         [rc |-> "SUCCESS", idx |-> f.idx, nodes |-> f.nodes,
          map |-> flat_remap(f.nodes, f.idx.head,
                             init_map(l.io.elements \div 10, IndexMapThreshold))]))

\* flat_index(idx, L2NORM, Dims) in alloc_index
InitFlat ==
    /\ idx = flat_init(Dims)
    /\ nodes = <<>>
    /\ map = init_map(IndexMapSize, IndexMapThreshold)
    /\ stats = [insert |-> ZeroStat, delete |-> ZeroStat, dump |-> ZeroStat,
                search |-> ZeroStat, search_n |-> ZeroStat]
    /\ rwlock = [writer |-> 0, readers |-> {}]
    /\ pc = [t \in Threads |-> "idle"]
    /\ call = [t \in Threads |-> NoCall]
    /\ ret = [t \in Threads |-> "none"]
    /\ hist = [live |-> {}, n |-> 0, d |-> 0]
    /\ heap = NULL

\* insert(index, id, vector, dims) on a flat index, as one step
FlatInsert(id, vector, delta) ==
    /\ Quiet
    /\ Len(nodes) < MaxNodes
    /\ call' = [call EXCEPT ![Main] = [NoCall EXCEPT !.op = "insert", !.id = id,
                                                      !.vector = vector]]
    /\ IF map_has(map, id)
       THEN /\ ret' = [ret EXCEPT ![Main] = "DUPLICATED_ENTRY"]
            /\ UNCHANGED <<idx, nodes, map, stats, hist>>
       ELSE \E r \in {flat_insert(idx, nodes, id, vector, Len(vector))} :
               /\ ret' = [ret EXCEPT ![Main] = r.rc]
               /\ idx' = r.idx
               /\ nodes' = r.nodes
               /\ map' = IF r.rc = "SUCCESS" THEN map_insert_p(map, id, r.ref) ELSE map
               /\ stats' = IF r.rc = "SUCCESS"
                           THEN [stats EXCEPT !.insert = UPDATE_TIMESTAT(stats.insert, delta)]
                           ELSE stats
               /\ hist' = SawInsert(hist, id, r.rc)
    /\ UNCHANGED <<heap, rwlock, pc>>

\* delete(index, id) on a flat index, as one step
FlatDelete(id, delta) ==
    /\ Quiet
    /\ call' = [call EXCEPT ![Main] = [NoCall EXCEPT !.op = "delete", !.id = id]]
    /\ IF map_get_p(map, id) = NULL
       THEN /\ ret' = [ret EXCEPT ![Main] = "NOT_FOUND_ID"]
            /\ UNCHANGED <<idx, nodes, map, stats, hist>>
       ELSE \E r \in {flat_delete(idx, nodes, map_get_p(map, id))} :
               /\ ret' = [ret EXCEPT ![Main] = r.rc]
               /\ idx' = r.idx
               /\ nodes' = r.nodes
               /\ map' = map_remove_p(map, id).m
               /\ stats' = [stats EXCEPT !.delete = UPDATE_TIMESTAT(stats.delete, delta)]
               /\ hist' = SawDelete(hist, id, r.rc)
    /\ UNCHANGED <<heap, rwlock, pc>>

\* import(index, filename, mode) on a flat index, as one step
FlatImport(file, mode) ==
    /\ Quiet
    /\ Len(nodes) < MaxNodes
    /\ call' = [call EXCEPT ![Main] = [NoCall EXCEPT !.op = "import", !.mode = mode,
                                                      !.vector = file]]
    /\ \E r \in {flat_import(idx, nodes, map, store_load_file(file).io, mode)} :
          /\ ret' = [ret EXCEPT ![Main] = r.rc]
          /\ idx' = r.idx
          /\ nodes' = r.nodes
          /\ map' = r.map
    /\ UNCHANGED <<heap, stats, rwlock, pc, hist>>

\* the dumps of one index the caller makes
MaxDumps == 1

\* dump(index, filename) on a flat index, as one step
FlatDump(delta, calloc0) ==
    /\ Quiet
    /\ stats.dump.count < MaxDumps
    /\ call' = [call EXCEPT ![Main] = [NoCall EXCEPT !.op = "dump"]]
    /\ \E d \in {flat_dump(idx, nodes, calloc0)} :
       \E r \in {dump(stats, TRUE, d.rc,
                      IF d.rc = "SUCCESS" THEN store_dump_file(d.io).rc ELSE d.rc, delta)} :
          /\ ret' = [ret EXCEPT ![Main] = r.rc]
          /\ stats' = r.stats
    /\ UNCHANGED <<heap, idx, nodes, map, rwlock, pc, hist>>

\* a dump of a flat index of ten vectors
TenFile ==
    [hdr |-> [magic |-> FLT_MAGIC, elements |-> 10, dims |-> Dims,
              dims_aligned |-> DimsAligned, method |-> L2NORM, only_vectors |-> 1],
     vectors |-> [i \in 1..10 |-> [id |-> i, tag |-> 0, vector |-> MkVec(0)]]]

\* load_index(filename), as one step: the handle it returns takes the place
\* of the caller's index; a call that returns NULL leaves the caller with
\* the index it had
FlatLoad(file) ==
    /\ Quiet
    /\ call' = [call EXCEPT ![Main] = [NoCall EXCEPT !.op = "load", !.vector = file]]
    /\ \E r \in {load_index(file)} :
          /\ ret' = [ret EXCEPT ![Main] = r.rc]
          /\ IF r.rc = "SUCCESS"
             THEN /\ idx' = r.idx
                  /\ nodes' = r.nodes
                  /\ map' = r.map
                  /\ stats' = [insert |-> ZeroStat, delete |-> ZeroStat, dump |-> ZeroStat,
                               search |-> ZeroStat, search_n |-> ZeroStat]
             ELSE UNCHANGED <<idx, nodes, map, stats>>
          /\ hist' = IF r.rc = "SUCCESS" THEN [live |-> {}, n |-> 0, d |-> 0] ELSE hist
    /\ UNCHANGED <<heap, rwlock, pc>>

\* the sequential caller of a flat index
NextFlat ==
    \/ \E id \in Ids, v \in GoodVectors \cup {BadVector}, delta \in Deltas :
          FlatInsert(id, v, delta)
    \/ \E id \in Ids, delta \in Deltas : FlatDelete(id, delta)
    \/ \E file \in Files, mode \in ImportModes : FlatImport(file, mode)
    \/ \E delta \in Deltas, calloc0 \in BOOLEAN : FlatDump(delta, calloc0)
    \/ \E file \in Files \cup {TenFile} : FlatLoad(file)

SpecFlat == InitFlat /\ [][NextFlat]_vars

(* ------------------------------------------- insert, allocation failures *)
\* the places where an allocation of graph_insert may fail: the calloc of
\* entry, or the first call of search_layer at layer f or below
CALLOC_ENTRY == -1
FailPoints == {CALLOC_ENTRY} \cup Levels

\* the loop of GI_Layers with search_layer failing at layer `fail`, and at
\* the first layer when that is below `fail`; S is [rc, nodes, entry]
RECURSIVE GI_LayersFailing(_, _, _, _, _, _)
GI_LayersFailing(index, sc, node, i, fail, S) ==
    IF i < 0 \/ S.rc # "SUCCESS" THEN S
    ELSE IF i <= fail THEN [S EXCEPT !.rc = "SYSTEM_ERROR"]
    ELSE LET m == IF i = 0 THEN index.M0 ELSE index.M0 \div 2 IN
         With(search_layer(S.nodes, sc, S.entry, Len(S.entry), index.ef_construct, i),
              LAMBDA W :
         With(select_neighbors(S.nodes, sc, W, m,
                  SELECT_NEIGHBORS_HEURISTIC + HEURISTIC_KEEP_PRUNED
                      + HEURISTIC_EXTEND_CANDIDATES, i), LAMBDA sel :
         IF sel.rc # "SUCCESS" THEN [S EXCEPT !.rc = sel.rc]
         ELSE IF heap_size(sel.h) > m THEN [S EXCEPT !.rc = "PANIC"]
         ELSE With(GI_Connect(sc, node, i, m,
                       [rc |-> "SUCCESS", nodes |-> S.nodes, W |-> sel.h, entry |-> <<>>]),
                   LAMBDA c :
              GI_LayersFailing(index, sc, node, i - 1, fail,
                               [rc |-> c.rc, nodes |-> c.nodes, entry |-> c.entry]))))

\* graph_insert on a non-empty index with an allocation that fails at
\* `fail`: the node is linked at the head of the forward list before any
\* allocation, and return_with_error undoes nothing; returns [rc, idx, nodes]
graph_insert_failing(index, ns, node, fail) ==
    With(graph_insert_link(index, ns, node), LAMBDA l :
    IF fail = CALLOC_ENTRY THEN [rc |-> "SYSTEM_ERROR", idx |-> l.idx, nodes |-> l.nodes]
    ELSE LET sc == [query |-> VecOf(l.nodes, node), dims_aligned |-> index.dims_aligned,
                    filter_alive |-> 0]
         IN With(Descend(l.nodes, sc, index.gentry, index.top_level, l.nodes[node].level),
                 LAMBDA d :
            IF d.rc # "SUCCESS" THEN [rc |-> d.rc, idx |-> l.idx, nodes |-> l.nodes]
            ELSE With(GI_LayersFailing(l.idx, sc, node,
                                       Min(index.top_level, l.nodes[node].level), fail,
                                       [rc |-> "SUCCESS", nodes |-> l.nodes,
                                        entry |-> <<d.ep>>]), LAMBDA L :
                 [rc |-> L.rc, idx |-> l.idx, nodes |-> L.nodes])))

\* hnsw_insert on a non-empty index, for a vector of the index's dims, when
\* graph_insert fails: free_graph_node and SYSTEM_ERROR; returns [rc, idx, nodes]
hnsw_insert_failing(index, ns, id, tag, vector, level, fail) ==
    With(graph_insert_failing(index,
             Append(ns, alloc_graph_node(id, tag, vector, index.dims_aligned, index.M0,
                                         level)),
             Len(ns) + 1, fail), LAMBDA g :
    [rc |-> IF g.rc = "PANIC" THEN "PANIC" ELSE "SYSTEM_ERROR", idx |-> g.idx,
     nodes |-> IF g.rc = "PANIC" THEN g.nodes ELSE free_graph_node(g.nodes, Len(ns) + 1)])

\* no node of the arena has been freed
NoneFreed == \A n \in DOMAIN nodes : nodes[n] # Freed

\* insert(index, id, vector, dims) whose graph_insert runs out of memory at
\* `fail`, as one step: the id is new and the index holds a node, so
\* graph_insert allocates
InsertFailing(id, tag, vector, level, fail) ==
    /\ Quiet
    /\ NoneFreed
    /\ Len(nodes) < MaxNodes
    /\ idx.elements > 0
    /\ ~map_has(map, id)
    /\ call' = [call EXCEPT ![Main] = [NoCall EXCEPT !.op = "insert", !.id = id,
                                                      !.vector = vector]]
    /\ \E r \in {hnsw_insert_failing(idx, nodes, id, tag, vector, level, fail)} :
          /\ ret' = [ret EXCEPT ![Main] = r.rc]
          /\ idx' = r.idx
          /\ nodes' = r.nodes
    /\ UNCHANGED <<heap, map, stats, rwlock, pc, hist>>

\* insert between wrlock and unlock when map_insert_p cannot allocate: the
\* backend insert is undone with index->delete and the code of map_insert_p
\* is returned; returns [rc, idx, nodes]
insert_locked_map_failing(index, ns, id, tag, vector, dims, level) ==
    With(hnsw_insert(index, ns, id, tag, vector, dims, level), LAMBDA r :
    IF r.rc # "SUCCESS" THEN [rc |-> r.rc, idx |-> r.idx, nodes |-> r.nodes]
    ELSE [rc |-> "MAP_ERROR_ALLOC", idx |-> r.idx, nodes |-> hnsw_delete(r.nodes, r.ref)])

\* insert(index, id, vector, dims) whose map_insert_p runs out of memory, as
\* one step; the id is new
InsertMapFailing(id, tag, vector, level) ==
    /\ Quiet
    /\ NoneFreed
    /\ Len(nodes) < MaxNodes
    /\ ~map_has(map, id)
    /\ call' = [call EXCEPT ![Main] = [NoCall EXCEPT !.op = "insert", !.id = id,
                                                      !.vector = vector]]
    /\ \E r \in {insert_locked_map_failing(idx, nodes, id, tag, vector, Len(vector),
                                           level)} :
          /\ ret' = [ret EXCEPT ![Main] = r.rc]
          /\ idx' = r.idx
          /\ nodes' = r.nodes
    /\ UNCHANGED <<heap, map, stats, rwlock, pc, hist>>

\* A call on an index that refers to freed memory has undefined behaviour:
\* an index is followed up to its first free.
InsertSound(id, tag, vector, level, delta) ==
    NoneFreed /\ Insert(id, tag, vector, level, delta)
DeleteSound(id, delta) == NoneFreed /\ Delete(id, delta)

\* the sequential caller whose allocations may fail
NextFail ==
    \/ \E id \in Ids, tag \in Tags, v \in GoodVectors, level \in Levels,
          delta \in Deltas : InsertSound(id, tag, v, level, delta)
    \/ \E id \in Ids, delta \in Deltas : DeleteSound(id, delta)
    \/ \E id \in Ids, tag \in Tags, v \in GoodVectors, level \in Levels,
          fail \in FailPoints : InsertFailing(id, tag, v, level, fail)
    \/ \E id \in Ids, tag \in Tags, v \in GoodVectors \cup {BadVector},
          level \in Levels : InsertMapFailing(id, tag, v, level)

SpecFail == Init /\ [][NextFail]_vars

(* ------------------------------------------------------- a heap of its own *)
\* heap_peek with its return code: [rc, node]
heap_peek_rc(h) ==
    IF h.e = 0 THEN [rc |-> "HEAP_ERROR_EMPTY", node |-> HeapNode(NULL, 0)]
    ELSE [rc |-> "HEAP_SUCCESS", node |-> At(h.heap, 0)]

\* as_update that replaces the root of a full heap whatever the new element
as_update_unconditional(h, input) ==
    IF heap_full(h)
    THEN With(heap_replace(h, input), LAMBDA r :
           [rc |-> IF r.rc # "HEAP_SUCCESS" THEN "SYSTEM_ERROR" ELSE "SUCCESS",
            h |-> r.h])
    ELSE With(heap_insert(h, input), LAMBDA r :
           [rc |-> IF r.rc = "HEAP_ERROR_FULL" THEN "SYSTEM_ERROR" ELSE "SUCCESS",
            h |-> r.h])

\* one turn of the loop of as_update on as->heap; returns [rc, h]
as_update(h, input) ==
    IF heap_full(h)
    THEN IF heap_peek_rc(h).rc # "HEAP_SUCCESS" THEN [rc |-> "SYSTEM_ERROR", h |-> h]
         ELSE IF is_better_match(input.distance, heap_peek_rc(h).node.distance)
              THEN With(heap_replace(h, input), LAMBDA r :
                     [rc |-> IF r.rc # "HEAP_SUCCESS" THEN "SYSTEM_ERROR" ELSE "SUCCESS",
                      h |-> r.h])
              ELSE [rc |-> "SUCCESS", h |-> h]
    ELSE With(heap_insert(h, input), LAMBDA r :
           [rc |-> IF r.rc = "HEAP_ERROR_FULL" THEN "SYSTEM_ERROR" ELSE "SUCCESS",
            h |-> r.h])

\* the largest max_size of a bounded heap, and the most elements fed to one
\* heap through as_update
MaxHeap == 3
MaxFeed == 4
\* an unbounded heap is filled until its first array is exhausted once
MaxGrow == DEFAULT_SIZE + 1

HeapTypes == {HEAP_BETTER_TOP, HEAP_WORST_TOP}
HeapCaps == (0..MaxHeap) \cup {NOLIMIT_HEAP}
\* two payloads and two distances: equal distances on different payloads
HeapNodes == {HeapNode(v, d) : v \in {1, 2}, d \in {1, 2}}
\* past MaxHeap elements a heap only grows, by one node
NodesFor(h) == IF h.e < MaxHeap THEN HeapNodes ELSE {HeapNode(1, 1)}

\* init_heap(&heap, type, max_size, is_better_match).  Here hist is
\* [fed, out, pure]: the number of elements given to as_update, the distances
\* of those it dropped or evicted, and whether as_update alone has changed the
\* heap; once another operation has, hist is Mixed and stays so
Mixed == [fed |-> 0, out |-> {}, pure |-> FALSE]

InitHeap ==
    /\ idx = hnsw_init(Dims, InitContext)
    /\ nodes = <<>>
    /\ map = init_map(IndexMapSize, IndexMapThreshold)
    /\ stats = [insert |-> ZeroStat, delete |-> ZeroStat, dump |-> ZeroStat,
                search |-> ZeroStat, search_n |-> ZeroStat]
    /\ rwlock = [writer |-> 0, readers |-> {}]
    /\ pc = [t \in Threads |-> "idle"]
    /\ call = [t \in Threads |-> NoCall]
    /\ ret = [t \in Threads |-> "none"]
    /\ hist = [fed |-> 0, out |-> {}, pure |-> TRUE]
    /\ \E type \in HeapTypes, max_size \in HeapCaps : heap = init_heap(type, max_size)

\* heap_insert(&heap, &node)
HeapInsert(node) ==
    /\ heap.e < MaxGrow
    /\ node \in NodesFor(heap)
    /\ \E r \in {heap_insert(heap, node)} :
          /\ heap' = r.h
          /\ ret' = [ret EXCEPT ![Main] = r.rc]
    /\ call' = [call EXCEPT ![Main] = [NoCall EXCEPT !.op = "heap_insert", !.ref = node]]
    /\ hist' = Mixed
    /\ UNCHANGED <<idx, nodes, map, stats, rwlock, pc>>

\* heap_pop(&heap, &node)
HeapPop ==
    /\ heap.e <= MaxHeap
    /\ \E r \in {heap_pop(heap)} :
          /\ heap' = r.h
          /\ ret' = [ret EXCEPT ![Main] = r.rc]
          /\ call' = [call EXCEPT ![Main] = [NoCall EXCEPT !.op = "heap_pop", !.ref = r.node]]
    /\ hist' = Mixed
    /\ UNCHANGED <<idx, nodes, map, stats, rwlock, pc>>

\* heap_peek(&heap, &node)
HeapPeek ==
    /\ \E r \in {heap_peek_rc(heap)} :
          /\ ret' = [ret EXCEPT ![Main] = r.rc]
          /\ call' = [call EXCEPT ![Main] = [NoCall EXCEPT !.op = "heap_peek", !.ref = r.node]]
    /\ UNCHANGED <<idx, nodes, map, stats, rwlock, pc, hist, heap>>

\* heap_replace(&heap, &node)
HeapReplace(node) ==
    /\ heap.e <= MaxHeap
    /\ node \in NodesFor(heap)
    /\ \E r \in {heap_replace(heap, node)} :
          /\ heap' = r.h
          /\ ret' = [ret EXCEPT ![Main] = r.rc]
    /\ call' = [call EXCEPT ![Main] = [NoCall EXCEPT !.op = "heap_replace", !.ref = node]]
    /\ hist' = Mixed
    /\ UNCHANGED <<idx, nodes, map, stats, rwlock, pc>>

\* the distances held by a heap
Held(h) == {At(h.heap, i).distance : i \in 0..(h.e - 1)}

\* as_update(as, &input, 1)
AsUpdate(input) ==
    /\ hist.fed < MaxFeed
    /\ heap.e <= MaxHeap
    /\ heap.type = HEAP_WORST_TOP
    /\ input \in HeapNodes
    /\ \E r \in {as_update(heap, input)} :
          /\ heap' = r.h
          /\ ret' = [ret EXCEPT ![Main] = r.rc]
          /\ hist' = IF ~hist.pure THEN hist ELSE
                     [hist EXCEPT
                        !.fed = @ + 1,
                        !.out = IF r.h.e > heap.e THEN @
                                ELSE IF r.h = heap THEN @ \cup {input.distance}
                                ELSE @ \cup {heap_peek_rc(heap).node.distance}]
    /\ call' = [call EXCEPT ![Main] = [NoCall EXCEPT !.op = "as_update", !.ref = input]]
    /\ UNCHANGED <<idx, nodes, map, stats, rwlock, pc>>

NextHeap ==
    \/ \E node \in HeapNodes : HeapInsert(node)
    \/ HeapPop
    \/ HeapPeek
    \/ \E node \in HeapNodes : HeapReplace(node)
    \/ \E input \in HeapNodes : AsUpdate(input)

SpecHeap == InitHeap /\ [][NextHeap]_vars

(* -------------------------------------------------------- a map of its own *)
\* map_get_safe returns [rc, value]
map_get_safe(m, key) ==
    With(ChainPos(Chain(m, map_hash(m, key)), key), LAMBDA j :
       IF j = 0 THEN [rc |-> "MAP_KEY_NOT_FOUND", value |-> 0]
       ELSE [rc |-> "MAP_OK", value |-> Chain(m, map_hash(m, key))[j].value])

\* map_remove_safe returns [rc, value, m]
map_remove_safe(m, key) ==
    With(ChainPos(Chain(m, map_hash(m, key)), key), LAMBDA j :
       IF j = 0 THEN [rc |-> "MAP_KEY_NOT_FOUND", value |-> 0, m |-> m]
       ELSE [rc |-> "MAP_OK", value |-> Chain(m, map_hash(m, key))[j].value,
             m |-> [m EXCEPT
                      !.map = SetChain(m.map, map_hash(m, key),
                                       RemoveAt(Chain(m, map_hash(m, key)), j)),
                      !.elements = m.elements - 1]])

\* the keys and values given to a map of its own, its initial sizes and its
\* thresholds
MaxKeys == 4
MapKeys == 1..MaxKeys
MapValues == {1, 2}
MapSizes == {1, 2}
MapThresholds == {0, 1}

\* what a function f becomes when key is given value
Put(f, key, value) ==
    [k \in DOMAIN f \cup {key} |-> IF k = key THEN value ELSE f[k]]
Drop(f, key) == [k \in DOMAIN f \ {key} |-> f[k]]

\* init_map(&map, initial_size, lfactor_thrhold).  Here hist is [kv]: the value
\* inserted for each key inserted and not removed since
InitMap ==
    /\ idx = hnsw_init(Dims, InitContext)
    /\ nodes = <<>>
    /\ \E initial_size \in MapSizes, lfactor_thrhold \in MapThresholds :
          map = init_map(initial_size, lfactor_thrhold)
    /\ stats = [insert |-> ZeroStat, delete |-> ZeroStat, dump |-> ZeroStat,
                search |-> ZeroStat, search_n |-> ZeroStat]
    /\ rwlock = [writer |-> 0, readers |-> {}]
    /\ pc = [t \in Threads |-> "idle"]
    /\ call = [t \in Threads |-> NoCall]
    /\ ret = [t \in Threads |-> "none"]
    /\ hist = [kv |-> <<>>]
    /\ heap = NULL

\* map_insert(&map, key, value) of a key the map does not hold
MapInsert(key, value) ==
    /\ ~map_has(map, key)
    /\ map' = map_insert_p(map, key, value)
    /\ ret' = [ret EXCEPT ![Main] = MAP_SUCCESS]
    /\ call' = [call EXCEPT ![Main] = [NoCall EXCEPT !.op = "map_insert", !.id = key,
                                                      !.ref = value]]
    /\ hist' = [kv |-> Put(hist.kv, key, value)]
    /\ UNCHANGED <<heap, idx, nodes, stats, rwlock, pc>>

\* map_remove_safe(&map, key, &out)
MapRemove(key) ==
    /\ \E r \in {map_remove_safe(map, key)} :
          /\ map' = r.m
          /\ ret' = [ret EXCEPT ![Main] = r.rc]
          /\ call' = [call EXCEPT ![Main] = [NoCall EXCEPT !.op = "map_remove", !.id = key,
                                                            !.ref = r.value]]
    /\ hist' = [kv |-> Drop(hist.kv, key)]
    /\ UNCHANGED <<heap, idx, nodes, stats, rwlock, pc>>

NextMap ==
    \/ \E key \in MapKeys, value \in MapValues : MapInsert(key, value)
    \/ \E key \in MapKeys : MapRemove(key)

SpecMap == InitMap /\ [][NextMap]_vars

(* ------------------------------------- inserts around a change of M0 *)
\* the most nodes of an index whose M0 changes, and the values M0 takes
MaxGraph == 4
M0s == {1, 4}
GraphIds == 1..MaxGraph
\* points on a line: 4 is nearest to 3, 5 lies behind 4, 0 on the other side
GraphVectors == {MkVec(c) : c \in {0, 3, 4, 5}}

\* the levels assign_level(M0) draws: lm(M0 / 2) is 1 / logf(0) = -0 when
\* M0 < 2, and the level is then 0
LevelsFor(M0) == IF M0 \div 2 = 0 THEN {0} ELSE Levels

\* alloc_index(HNSW_INDEX, L2NORM, Dims, &context) with context.M0 in M0s
InitM0 ==
    /\ \E M0 \in M0s : idx = hnsw_init(Dims, [InitContext EXCEPT !.M0 = M0])
    /\ nodes = <<>>
    /\ map = init_map(IndexMapSize, IndexMapThreshold)
    /\ stats = [insert |-> ZeroStat, delete |-> ZeroStat, dump |-> ZeroStat,
                search |-> ZeroStat, search_n |-> ZeroStat]
    /\ rwlock = [writer |-> 0, readers |-> {}]
    /\ pc = [t \in Threads |-> "idle"]
    /\ call = [t \in Threads |-> NoCall]
    /\ ret = [t \in Threads |-> "none"]
    /\ hist = [live |-> {}, n |-> 0, d |-> 0]
    /\ heap = NULL

\* no node has been freed and no store has gone past a neighbor array: what
\* follows either is undefined
InBounds == NoneFreed /\ \A n \in 1..Len(nodes) : ~nodes[n].oob

\* insert(index, id, vector, dims) as one step; the ids come in order
InsertM0(id, vector, level) ==
    /\ Quiet
    /\ InBounds
    /\ Len(nodes) < MaxGraph
    /\ id = Len(nodes) + 1
    /\ level \in LevelsFor(idx.M0)
    /\ call' = [call EXCEPT ![Main] = [NoCall EXCEPT !.op = "insert", !.id = id,
                                                      !.vector = vector]]
    /\ \E r \in {insert_locked(State, id, 1, vector, Len(vector), level, 1)} :
          /\ ret' = [ret EXCEPT ![Main] = r.rc]
          /\ idx' = r.S.idx
          /\ nodes' = r.S.nodes
          /\ map' = r.S.map
          /\ stats' = r.S.stats
          /\ hist' = SawInsert(hist, id, r.rc)
    /\ UNCHANGED <<heap, rwlock, pc>>

\* update_icontext(index, &context, HNSW_CONTEXT | HNSW_CONTEXT_SET_M0)
SetM0(M0) ==
    /\ Quiet
    /\ InBounds
    /\ M0 # idx.M0
    /\ call' = [call EXCEPT ![Main] = [NoCall EXCEPT !.op = "update_icontext",
                                          !.mode = HNSW_CONTEXT + HNSW_CONTEXT_SET_M0]]
    /\ idx' = hnsw_update_icontext(idx, [InitContext EXCEPT !.M0 = M0],
                                   HNSW_CONTEXT + HNSW_CONTEXT_SET_M0)
    /\ ret' = [ret EXCEPT ![Main] = "SUCCESS"]
    /\ UNCHANGED <<heap, nodes, map, stats, rwlock, pc, hist>>

NextM0 ==
    \/ \E id \in GraphIds, v \in GraphVectors, level \in Levels : InsertM0(id, v, level)
    \/ \E M0 \in M0s : SetM0(M0)

SpecM0 == InitM0 /\ [][NextM0]_vars

(* ------------------------------------------- k-NN queries of every size *)
\* the k a caller may ask for: below, at and above the ef_search values the
\* index takes
BreadthKs == {1, 2, 3, 4}

\* search_n(index, vector, dims, results, k) with no tag mask, as one step of
\* the calling thread; the call record keeps k
Knn(vector, k, delta) ==
    /\ Quiet
    /\ stats.search_n.count < MaxSearches
    /\ \E r \in {search_locked(State, 0, vector, Len(vector), StaleBuffer(k), k, delta)} :
          /\ ret' = [ret EXCEPT ![Main] = r.rc]
          /\ stats' = r.stats
    /\ call' = [call EXCEPT ![Main] = [NoCall EXCEPT !.op = "search", !.n = k]]
    /\ UNCHANGED <<heap, idx, nodes, map, rwlock, pc, hist>>

NextKnn ==
    \/ \E id \in Ids, v \in GoodVectors, level \in Levels, delta \in Deltas :
          Insert(id, 1, v, level, delta)
    \/ UpdateContext(HNSW_CONTEXT + HNSW_CONTEXT_SET_EF_SEARCH)
    \/ \E v \in GoodVectors, k \in BreadthKs, delta \in Deltas : Knn(v, k, delta)

SpecKnn == Init /\ [][NextKnn]_vars

(* ------------------------------------------- searches under the shared lock *)
\* the successful searches the threads make, and the durations they measure
MaxRace == 2
RaceDeltas == {1, 2}

\* here hist also holds, for each thread, the value it last loaded from the
\* stats record (reg), and what the callers have seen of their searches: the
\* number that returned SUCCESS (ok) and the sum of their durations (sum)
InitRace ==
    /\ idx = hnsw_init(Dims, InitContext)
    /\ nodes = <<>>
    /\ map = init_map(IndexMapSize, IndexMapThreshold)
    /\ stats = [insert |-> ZeroStat, delete |-> ZeroStat, dump |-> ZeroStat,
                search |-> ZeroStat, search_n |-> ZeroStat]
    /\ rwlock = [writer |-> 0, readers |-> {}]
    /\ pc = [t \in Threads |-> "idle"]
    /\ call = [t \in Threads |-> NoCall]
    /\ ret = [t \in Threads |-> "none"]
    /\ hist = [live |-> {}, n |-> 0, d |-> 0,
               reg |-> [t \in Threads |-> 0], ok |-> 0, sum |-> 0]
    /\ heap = NULL

\* search_n called
RaceCall(t, tag, vector, delta) ==
    /\ ~Aborted
    /\ pc[t] = "idle"
    /\ hist.ok + Cardinality(InFlight("search")) < MaxRace
    /\ call' = Begin(t, [NoCall EXCEPT !.op = "search", !.tag = tag, !.vector = vector,
                                        !.n = 1, !.delta = delta])
    /\ ret' = [ret EXCEPT ![t] = "pending"]
    /\ pc' = [pc EXCEPT ![t] = "search_lock"]
    /\ UNCHANGED <<heap, idx, nodes, map, stats, rwlock, hist>>

\* ret = index->search_n(...) under the read lock
RaceSearch(t) ==
    /\ pc[t] = "search_body"
    /\ \E r \in {hnsw_search(idx, nodes, call[t].tag, call[t].vector,
                            Len(call[t].vector), StaleBuffer(call[t].n), call[t].n)} :
          /\ ret' = [ret EXCEPT ![t] = r.rc]
          /\ pc' = [pc EXCEPT ![t] = IF r.rc = "SUCCESS" THEN "count_load" ELSE "unlock"]
    /\ UNCHANGED <<heap, idx, nodes, map, stats, rwlock, call, hist>>

\* UPDATE_TIMESTAT, (stat).count++: the load
CountLoad(t) ==
    /\ pc[t] = "count_load"
    /\ hist' = [hist EXCEPT !.reg[t] = stats.search_n.count]
    /\ pc' = [pc EXCEPT ![t] = "count_store"]
    /\ UNCHANGED <<heap, idx, nodes, map, stats, rwlock, call, ret>>

\* UPDATE_TIMESTAT, (stat).count++: the store
CountStore(t) ==
    /\ pc[t] = "count_store"
    /\ stats' = [stats EXCEPT !.search_n.count = hist.reg[t] + 1]
    /\ pc' = [pc EXCEPT ![t] = "total_load"]
    /\ UNCHANGED <<heap, idx, nodes, map, rwlock, call, ret, hist>>

\* UPDATE_TIMESTAT, (stat).total += (delta): the load
TotalLoad(t) ==
    /\ pc[t] = "total_load"
    /\ hist' = [hist EXCEPT !.reg[t] = stats.search_n.total]
    /\ pc' = [pc EXCEPT ![t] = "total_store"]
    /\ UNCHANGED <<heap, idx, nodes, map, stats, rwlock, call, ret>>

\* UPDATE_TIMESTAT, (stat).total += (delta): the store, and the rest of the
\* macro: last, min and max
TotalStore(t) ==
    /\ pc[t] = "total_store"
    /\ LET s == stats.search_n
           delta == call[t].delta
       IN stats' = [stats EXCEPT !.search_n =
             [count |-> s.count, total |-> hist.reg[t] + delta, last |-> delta,
              min |-> IF s.count = 1 THEN delta
                      ELSE IF delta < s.min THEN delta ELSE s.min,
              max |-> IF s.count = 1 THEN delta
                      ELSE IF delta > s.max THEN delta ELSE s.max]]
    /\ pc' = [pc EXCEPT ![t] = "unlock"]
    /\ UNCHANGED <<heap, idx, nodes, map, rwlock, call, ret, hist>>

\* pthread_rwlock_unlock and the return to the caller
RaceUnlock(t) ==
    /\ pc[t] = "unlock"
    /\ rwlock' = unlock(rwlock, t)
    /\ pc' = [pc EXCEPT ![t] = "idle"]
    /\ hist' = IF ret[t] = "SUCCESS"
               THEN [hist EXCEPT !.ok = @ + 1, !.sum = @ + call[t].delta]
               ELSE hist
    /\ UNCHANGED <<heap, idx, nodes, map, stats, call, ret>>

NextRace ==
    \/ \E id \in Ids, v \in MTVectors, level \in MTLevels, delta \in Deltas :
          Insert(id, 1, v, level, delta)
    \/ \E t \in Threads :
          \/ \E tag \in MTQueryTags, v \in MTVectors \cup {BadVector},
                delta \in RaceDeltas : RaceCall(t, tag, v, delta)
          \/ SearchLock(t)
          \/ RaceSearch(t)
          \/ CountLoad(t)
          \/ CountStore(t)
          \/ TotalLoad(t)
          \/ TotalStore(t)
          \/ RaceUnlock(t)

SpecRace == InitRace /\ [][NextRace]_vars

(* -------------------------------------------------- observers of a state *)
\* the nodes of the forward list, from idx->head along ->next
RECURSIVE ListFrom(_, _)
ListFrom(ns, n) == IF n = NULL THEN <<>> ELSE <<n>> \o ListFrom(ns, ns[n].next)
ForwardList == ListFrom(nodes, idx.head)
Listed == {ForwardList[i] : i \in 1..Len(ForwardList)}

\* the alive listed nodes a query with this tag mask is to match
Matching(tag) ==
    {n \in Listed : nodes[n].alive = 1
                    /\ (tag = 0 \/ BitAnd(nodes[n].vector.tag, tag) # 0)}

\* the number of entries in the buckets of a map
RECURSIVE SumLen(_, _)
SumLen(m, B) ==
    IF B = {} THEN 0
    ELSE LET b == CHOOSE x \in B : TRUE IN Len(m[b]) + SumLen(m, B \ {b})
Entries(m) == SumLen(m.map, DOMAIN m.map)

\* what a query of the input sets gets on the current state
Answer(tag, v, n) == hnsw_search(idx, nodes, tag, v, Dims, StaleBuffer(n), n)
Sentinel == [id |-> NULL_ID, distance |-> worst_match_value]

(* ------------------------------------------------------------- C1 *)
\* C1: after any sequence of insert and delete calls, no search, on the graph
\* k-NN path (tag = 0) or on the tag-filtered linear scan (tag # 0), writes to
\* its output the id of a node that is not alive: every id a successful search
\* writes is the id of an alive node that matches the query's tag mask.
C1_NoDeadIdInOutput ==
    \A tag \in QueryTags, v \in GoodVectors, n \in Ks :
        LET r == Answer(tag, v, n) IN
        r.rc = "SUCCESS" =>
            \A i \in 1..n :
                (r.result[i] # Stale /\ r.result[i].id # NULL_ID) =>
                    \E m \in Matching(tag) : nodes[m].vector.id = r.result[i].id

C4_DeleteThenInsert ==
    [][ /\ (call'[Main].op = "delete" /\ contains(map, call'[Main].id))
            => ret'[Main] = "SUCCESS"
        /\ ( /\ call[Main].op = "delete" /\ ret[Main] = "SUCCESS"
             /\ call'[Main].op = "insert" /\ call'[Main].id = call[Main].id
             /\ Len(call'[Main].vector) = Dims )
            => LET id == call'[Main].id
                   new == map_get_p(map', id)
               IN /\ ret'[Main] = "SUCCESS"
                  /\ contains(map', id)
                  /\ new = Len(nodes') /\ new > Len(nodes)
                  /\ nodes'[new].vector.id = id
                  /\ nodes'[new].vector.vector = call'[Main].vector
                  /\ nodes'[new].alive = 1
                  /\ \A m \in 1..Len(nodes) :
                        nodes[m].vector.id = id => nodes'[m].alive = 0
      ]_vars

\* the insert of a deleted id has returned SUCCESS
C4_Witness ==
    /\ call[Main].op = "insert" /\ ret[Main] = "SUCCESS"
    /\ \E m \in 1..Len(nodes) :
          /\ nodes[m].vector.id = call[Main].id /\ nodes[m].alive = 0
          /\ map_get_p(map, call[Main].id) > m

(* ------------------------------------------------------------- C5 *)
\* C5: a search, with or without a tag mask, on an index that holds no
\* elements returns INDEX_EMPTY.
C5_EmptyIndexSearch ==
    idx.elements = 0 =>
        \A tag \in QueryTags, v \in GoodVectors, n \in Ks :
            Answer(tag, v, n).rc = "INDEX_EMPTY"

(* ------------------------------------------------------------- C6 *)
\* C6: when a successful search asks for k results and fewer than k alive
\* matching nodes exist, the first slots of the output hold the real results
\* and every remaining slot up to k holds the sentinel (id = 0, distance =
\* worst_match_value), on the graph path and on the tag-filtered path.
C6_SentinelFill ==
    \A tag \in QueryTags, v \in GoodVectors, k \in Ks :
        LET r == Answer(tag, v, k)
            live == Cardinality(Matching(tag))
        IN (r.rc = "SUCCESS" /\ live < k) =>
              /\ \A i \in 1..live :
                    \E m \in Matching(tag) : nodes[m].vector.id = r.result[i].id
              /\ \A i \in (live + 1)..k : r.result[i] = Sentinel

(* ------------------------------------------------------------- C7 *)
\* C7: insert rejects id = 0 with INVALID_ID, an id that is contained with
\* DUPLICATED_ENTRY and a vector of other dims than the index's with
\* INVALID_DIMENSIONS (the checks are made in this order); in each of these
\* cases the graph, the forward list, the element count, the id-map, the
\* reported size and the stats are as before the call.
C7_InsertRejections ==
    [][ call'[Main].op = "insert" =>
          LET id == call'[Main].id
              v  == call'[Main].vector
          IN /\ id = NULL_ID => ret'[Main] = "INVALID_ID"
             /\ (id # NULL_ID /\ contains(map, id)) => ret'[Main] = "DUPLICATED_ENTRY"
             /\ (id # NULL_ID /\ ~contains(map, id) /\ Len(v) # Dims)
                    => ret'[Main] = "INVALID_DIMENSIONS"
             /\ (id # NULL_ID /\ ~contains(map, id) /\ Len(v) = Dims)
                    => ret'[Main] = "SUCCESS"
             /\ ret'[Main] \in {"INVALID_ID", "DUPLICATED_ENTRY", "INVALID_DIMENSIONS"}
                    => /\ UNCHANGED <<idx, nodes, map, stats>>
                       /\ ForwardList' = ForwardList
                       /\ size(map') = size(map)
      ]_vars

\* an insert of a contained id with a vector of the wrong dims was rejected
\* after the index had taken inserts and a delete
C7_Witness ==
    /\ call[Main].op = "insert" /\ ret[Main] = "DUPLICATED_ENTRY"
    /\ Len(call[Main].vector) # Dims
    /\ stats.insert.count = 1 /\ Len(nodes) = 1

InCS(t) ==
    pc[t] \in {"insert_begin", "insert_end", "delete_body", "search_body",
               "context_body", "unlock"}
Writing(t) == InCS(t) /\ call[t].op \in {"insert", "delete", "update_icontext"}
\* a node that is linked in the forward list and not yet connected and
\* registered: alive, and not the node the id-map holds for its id, or
\* without a neighbor next to other nodes
PartlyInserted(m) ==
    /\ m \in Listed
    /\ nodes[m].alive = 1
    /\ \/ map_get_p(map, nodes[m].vector.id) # m
       \/ idx.elements > 1 /\ ODEGREE(nodes, m, 0) = 0

RacedInserts(t, u) ==
    /\ t # u
    /\ pc[t] = "idle" /\ pc[u] = "idle"
    /\ call[t].op = "insert" /\ call[u].op = "insert"
    /\ call[t].id = call[u].id /\ call[t].id # NULL_ID
    /\ Len(call[t].vector) = Dims /\ Len(call[u].vector) = Dims
    /\ call[t].over /\ ~call[u].over
    /\ call[t].pre /\ call[u].pre

\* C10: when two threads concurrently call insert with the same non-zero id,
\* not contained before, exactly one call returns SUCCESS and the other
\* DUPLICATED_ENTRY, and the index ends with exactly one alive node of that id,
\* the one the id-map holds.
C10_OneInsertWins ==
    \A t, u \in Threads :
        RacedInserts(t, u) =>
            /\ {ret[t], ret[u]} = {"SUCCESS", "DUPLICATED_ENTRY"}
            /\ contains(map, call[t].id)
            /\ Cardinality({m \in Listed : nodes[m].vector.id = call[t].id
                                           /\ nodes[m].alive = 1}) = 1
            /\ nodes[map_get_p(map, call[t].id)].vector.id = call[t].id
            /\ nodes[map_get_p(map, call[t].id)].alive = 1

\* the thread that called second has won the race
C10_Witness ==
    \E t, u \in Threads :
        RacedInserts(t, u) /\ ret[t] = "SUCCESS" /\ ret[u] = "DUPLICATED_ENTRY"

(* ------------------------------------------------------------ C11 *)
\* the value update_icontext leaves in a parameter whose SET_ flag is `flag`
\* when the flag alone decides
Selected(mode, flag, new, old) == IF BitAnd(mode, flag) # 0 THEN new ELSE old

\* C11 as stated: update_context(ctx, flags) returns SUCCESS and sets each of
\* ef_construct, ef_search and M0 to the value in ctx exactly when its SET_ flag
\* is present in flags; the other parameters and all graph and id-map state
\* are unchanged.
C11_FlagsSelect ==
    [][ call'[Main].op = "update_icontext" =>
          LET mode == call'[Main].mode IN
          /\ ret'[Main] = "SUCCESS"
          /\ idx'.ef_construct = Selected(mode, HNSW_CONTEXT_SET_EF_CONSTRUCT,
                                          NewContext.ef_construct, idx.ef_construct)
          /\ idx'.ef_search = Selected(mode, HNSW_CONTEXT_SET_EF_SEARCH,
                                       NewContext.ef_search, idx.ef_search)
          /\ idx'.M0 = Selected(mode, HNSW_CONTEXT_SET_M0, NewContext.M0, idx.M0)
          /\ idx' = [idx EXCEPT !.ef_construct = idx'.ef_construct,
                                !.ef_search = idx'.ef_search, !.M0 = idx'.M0]
          /\ UNCHANGED <<nodes, map, stats>>
      ]_vars

\* C11 amended: update_context(ctx, flags) returns SUCCESS; when flags holds
\* the HNSW_CONTEXT bit it sets each of ef_construct, ef_search and M0 to the
\* value in ctx exactly when its SET_ flag is present, and when flags lacks the
\* HNSW_CONTEXT bit it sets none of them; every other field of the index and
\* all graph and id-map state are unchanged.
C11_FlagsSelectInContext ==
    [][ call'[Main].op = "update_icontext" =>
          LET mode == call'[Main].mode
              on   == BitAnd(mode, HNSW_CONTEXT) # 0
          IN
          /\ ret'[Main] = "SUCCESS"
          /\ idx'.ef_construct =
                 IF on THEN Selected(mode, HNSW_CONTEXT_SET_EF_CONSTRUCT,
                                     NewContext.ef_construct, idx.ef_construct)
                 ELSE idx.ef_construct
          /\ idx'.ef_search =
                 IF on THEN Selected(mode, HNSW_CONTEXT_SET_EF_SEARCH,
                                     NewContext.ef_search, idx.ef_search)
                 ELSE idx.ef_search
          /\ idx'.M0 = IF on THEN Selected(mode, HNSW_CONTEXT_SET_M0, NewContext.M0, idx.M0)
                       ELSE idx.M0
          /\ idx' = [idx EXCEPT !.ef_construct = idx'.ef_construct,
                                !.ef_search = idx'.ef_search, !.M0 = idx'.M0]
          /\ UNCHANGED <<nodes, map, stats>>
      ]_vars

\* on an index that holds a node, a call with HNSW_CONTEXT and SET_EF_SEARCH
\* has set ef_search and left ef_construct and M0 as alloc_index set them
C11_Witness ==
    /\ call[Main].op = "update_icontext"
    /\ call[Main].mode = HNSW_CONTEXT + HNSW_CONTEXT_SET_EF_SEARCH
    /\ idx.ef_search = NewContext.ef_search
    /\ idx.ef_construct = InitContext.ef_construct
    /\ idx.M0 = InitContext.M0
    /\ Len(nodes) = 1

(* ------------------------------------------------------------ C12 *)
\* the heap nodes a heap yields, in the order heap_pop returns them
RECURSIVE PopAll(_)
PopAll(h) ==
    IF heap_size(h) = 0 THEN <<>> ELSE <<heap_pop(h).node>> \o PopAll(heap_pop(h).h)

Reverse(s) == [i \in 1..Len(s) |-> s[Len(s) + 1 - i]]

\* the heap nodes behind the slots a search fills, first slot first: the
\* graph path pops R from its top, the tag path fills from the last slot back
Emitted(tag, v, n) ==
    IF tag = 0
    THEN PopAll(graph_knn_search(idx, nodes, v, init_heap(HEAP_BETTER_TOP, n), n).h)
    ELSE IF idx.head = NULL THEN <<>>
    ELSE Reverse(PopAll(LS_Scan(idx, nodes, tag, v, idx.head, init_heap(HEAP_WORST_TOP, n))))

\* C12: in the output of every successful search the real results appear
\* best-first: for consecutive filled slots i < j, result[j] is not better than
\* result[i], and no node appears twice, on the graph k-NN path and on the
\* tag-filtered path.
C12_BestFirst ==
    \A tag \in QueryTags, v \in GoodVectors, n \in Ks :
        LET r == Answer(tag, v, n)
            E == Emitted(tag, v, n)
        IN r.rc = "SUCCESS" =>
              /\ Len(E) <= n
              /\ \A i \in 1..Len(E) :
                    r.result[i] = [id |-> IdOf(nodes, E[i].value), distance |-> E[i].distance]
              /\ \A i, j \in 1..Len(E) :
                    i < j => /\ ~is_better_match(r.result[j].distance, r.result[i].distance)
                             /\ E[i].value # E[j].value

\* both paths have filled two slots, the nearer node first
C12_Witness ==
    /\ Len(Emitted(0, MkVec(0), 2)) = 2
    /\ Answer(0, MkVec(0), 2).result[1].distance < Answer(0, MkVec(0), 2).result[2].distance
    /\ Len(Emitted(3, MkVec(0), 2)) = 2
    /\ Answer(3, MkVec(0), 2).result[1].distance < Answer(3, MkVec(0), 2).result[2].distance
    /\ nodes[idx.head].vector.vector = MkVec(0)

(* ------------------------------------------------------------ C13 *)
\* the entry point is a node that has been deleted
EntryDeleted == idx.gentry # NULL /\ nodes[idx.gentry].alive = 0

\* what C13 says of the searches with these tag masks on a state whose entry
\* point is deleted: each returns SUCCESS, none fills a slot from the entry
\* point, and a search that some live node matches fills a slot
RoutedSearches(tags) ==
    EntryDeleted =>
        \A tag \in tags, v \in GoodVectors, n \in Ks :
            /\ Answer(tag, v, n).rc = "SUCCESS"
            /\ \A i \in 1..Len(Emitted(tag, v, n)) : Emitted(tag, v, n)[i].value # idx.gentry
            /\ Matching(tag) # {} => Len(Emitted(tag, v, n)) >= 1

\* C13: after the node that is the current entry point is deleted, every later
\* search on the index still returns SUCCESS, never reports the deleted entry
\* point in its results, and can still return live nodes reached through it;
\* the entry point pointer itself is unchanged by the delete.
C13_DeletedEntryPoint ==
    /\ []RoutedSearches(QueryTags)
    /\ [][call'[Main].op = "delete" => idx'.gentry = idx.gentry]_vars

(* ------------------------------------------------------------ C14 *)
\* the listed nodes whose tag shares a bit with the mask, alive or not
Tagged(tag) == {m \in Listed : BitAnd(tag, nodes[m].vector.tag) # 0}

\* C14: for a search with a non-zero tag mask, every id written to the output
\* belongs to a node whose tag shares at least one bit with the mask, and every
\* alive node whose tag shares a bit with the mask is a candidate for the top k
\* (the scan covers the whole forward list): such a node is left out only when
\* all k slots hold nodes that are not worse.
C14_TagFilter ==
    \A tag \in QueryTags \ {0}, v \in GoodVectors, n \in Ks :
        LET r == Answer(tag, v, n)
            E == Emitted(tag, v, n)
            out == {E[i].value : i \in 1..Len(E)}
        IN r.rc = "SUCCESS" =>
              /\ out \subseteq Tagged(tag)
              /\ \A i \in 1..n :
                    (r.result[i] # Stale /\ r.result[i].id # NULL_ID) =>
                        /\ i <= Len(E)
                        /\ r.result[i].id = IdOf(nodes, E[i].value)
              /\ \A m \in Matching(tag) \ out :
                    /\ Len(E) = n
                    /\ \A i \in 1..Len(E) :
                          ~is_better_match(
                              compare_vectors(VecOf(nodes, m), v, idx.dims_aligned),
                              E[i].distance)

\* the forward list holds a node the mask matches and one it does not, the
\* search has written the first alone; and with a mask both match, the one
\* slot of a k = 1 search holds the nearer and leaves the other out
C14_Witness ==
    /\ Cardinality(Listed) = 2
    /\ Cardinality(Tagged(1)) = 1
    /\ Len(Emitted(1, MkVec(0), 2)) = 1
    /\ Answer(1, MkVec(0), 2).result[2] = Sentinel
    /\ Cardinality(Matching(3)) = 2
    /\ Len(Emitted(3, MkVec(0), 1)) = 1
    /\ Answer(3, MkVec(0), 1).result[1].distance = 0
    /\ \E m \in Matching(3) : compare_vectors(VecOf(nodes, m), MkVec(0), idx.dims_aligned) > 0

(* ------------------------------------------------------------ C15 *)
\* the TimeStat of an operation of the facade
StatOf(st, op) ==
    IF op = "insert" THEN st.insert
    ELSE IF op = "delete" THEN st.delete
    ELSE IF op = "search" THEN st.search_n
    ELSE st.dump

ImportedAs(file, mode, ns, m, ns2, m2, Dead(_, _)) ==
    \A i \in 1..Len(file.vectors) :
       LET w == file.vectors[i]
           old == map_get_p(m, w.id)
           new == map_get_p(m2, w.id)
       IN IF old = NULL
          THEN new # NULL /\ ~Dead(ns2, new) /\ ns2[new].vector = w
          ELSE IF mode = IMPORT_OVERWITE
          THEN /\ new # NULL
               /\ new > Len(ns)
               /\ ~Dead(ns2, new)
               /\ ns2[new].vector = w
               /\ Dead(ns2, old)
          ELSE /\ new = old
               /\ ~Dead(ns2, old)
               /\ ns2[old].vector = ns[old].vector

FlatDead(ns, n) == ns[n] = Freed
GraphDead(ns, n) == ns[n].alive = 0

\* the file of the import step fits the index
FileFits == /\ call'[Main].op = "import"
            /\ call'[Main].vector.hdr.dims = idx.dims
            /\ call'[Main].vector.hdr.dims_aligned = idx.dims_aligned

\* C16: import(path, mode) into an existing index returns SUCCESS and treats
\* every incoming vector as the mode says (ImportedAs).  This is the claim on
\* the flat backend, for every import step of a flat index.
C16_ImportModes ==
    [][FileFits =>
          /\ ret'[Main] = "SUCCESS"
          /\ ImportedAs(call'[Main].vector, call'[Main].mode, nodes, map, nodes', map',
                        FlatDead)]_vars

\* the same statement on the HNSW backend, for every import step of an HNSW
\* index
ImportModesHNSW ==
    [][FileFits =>
          /\ ret'[Main] = "SUCCESS"
          /\ ImportedAs(call'[Main].vector, call'[Main].mode, nodes, map, nodes', map',
                        GraphDead)]_vars

\* the flat backend in the ignoring modes and on files with no colliding id
ImportModesFlatNoOverwrite ==
    [][/\ FileFits
       /\ \/ call'[Main].mode # IMPORT_OVERWITE
          \/ \A i \in 1..Len(call'[Main].vector.vectors) :
                ~map_has(map, call'[Main].vector.vectors[i].id)
       => /\ ret'[Main] = "SUCCESS"
          /\ ImportedAs(call'[Main].vector, call'[Main].mode, nodes, map, nodes', map',
                        FlatDead)]_vars

(* ------------------------------------------------------------ C17 *)
\* the visible contents of an index: the contained ids, each with the vector
\* the index holds for it
Visible(ns, m) == {<<id, ns[map_get_p(m, id)].vector>> : id \in {i \in Ids : contains(m, i)}}

\* a file imported into an empty HNSW index of dims Dims
IntoEmpty(file, mode, levels) ==
    import(hnsw_init(Dims, InitContext), <<>>, init_map(IndexMapSize, IndexMapThreshold),
           file, mode, levels)

\* C17: writing an index reached by inserts and deletes (one insert at
\* least) to a file with export succeeds, and importing that file into an
\* empty index of the same dims yields, in every import mode, the visible
\* contents of the index: the same contained ids with the same vectors, and
\* no id that was deleted.
C17_ExportThenImport ==
    [][call'[Main].op = "export" /\ idx.elements > 0 =>
          /\ ret'[Main] = "SUCCESS"
          /\ \A mode \in ImportModes, levels \in [1..idx.elements -> Levels] :
                /\ IntoEmpty(export(idx, nodes, TRUE).file, mode, levels).rc = "SUCCESS"
                /\ Visible(IntoEmpty(export(idx, nodes, TRUE).file, mode, levels).nodes,
                           IntoEmpty(export(idx, nodes, TRUE).file, mode, levels).map)
                   = Visible(nodes, map)]_vars

\* the file export would write if store_dump_file took the itype the export
\* function sets
FileOf(io) ==
    [hdr |-> [magic |-> HNSW_MAGIC, elements |-> io.elements, dims |-> io.dims,
              dims_aligned |-> io.dims_aligned, method |-> io.method, only_vectors |-> 1],
     vectors |-> SubSeq(io.vectors, 1, io.elements)]

\* the second part of C17 on the vectors the export function hands over,
\* with the abort of store_dump_file set aside
ExportedThenImported ==
    idx.elements > 0 =>
       \A mode \in ImportModes, levels \in [1..idx.elements -> Levels] :
          Visible(IntoEmpty(FileOf(export_fn(idx, nodes, TRUE).io), mode, levels).nodes,
                  IntoEmpty(FileOf(export_fn(idx, nodes, TRUE).io), mode, levels).map)
          = Visible(nodes, map)

(* ------------------------------------------------------------ C18 *)
\* the vectors of a flat index and the ids of its map
FlatVectors(index, ns) ==
    {VectorsFrom(ns, index.head)[i] : i \in 1..Len(VectorsFrom(ns, index.head))}
MappedIds(m) == {id \in 1..10 : contains(m, id)}

\* what load_index makes of the file that dump writes of the flat index
Reloaded == load_index(store_dump_file(flat_dump(idx, nodes, TRUE).io).file)

\* the index that was loaded is structurally equivalent to the one dumped
Equivalent(l) ==
    /\ l.rc = "SUCCESS"
    /\ l.idx.dims = idx.dims
    /\ l.idx.dims_aligned = idx.dims_aligned
    /\ l.idx.elements = idx.elements
    /\ FlatVectors(l.idx, l.nodes) = FlatVectors(idx, nodes)
    /\ MappedIds(l.map) = MappedIds(map)
    /\ \A id \in MappedIds(l.map) :
          l.nodes[map_get_p(l.map, id)].vector = nodes[map_get_p(map, id)].vector

\* C18: for every index that holds a vector, with fewer than 10 elements or
\* more, dump returns SUCCESS and load returns an index structurally
\* equivalent to the dumped one: same dims, same set of vectors, and an id-map
\* that contains exactly its live ids.  This is the claim on the flat backend,
\* for every dump step.
C18_DumpThenLoad ==
    [][call'[Main].op = "dump" /\ idx.elements > 0 =>
          ret'[Main] = "SUCCESS" /\ Equivalent(Reloaded)]_vars

\* the same statement for the flat indexes of ten elements and more
DumpThenLoadFromTen ==
    [][call'[Main].op = "dump" /\ idx.elements >= 10 =>
          ret'[Main] = "SUCCESS" /\ Equivalent(Reloaded)]_vars

(* ------------------------------------------------------------ C19 *)
\* a pointer that refers to no freed node
Valid(n) == n = NULL \/ nodes[n] # Freed

\* C19: at every state of an HNSW index, the states after an insert that
\* failed inside graph_insert included, no forward-list link, entry-point
\* pointer, neighbor slot or id-map value refers to a node that was freed.
C19_NoDanglingReference ==
    /\ Valid(idx.head)
    /\ Valid(idx.gentry)
    /\ \A n \in DOMAIN nodes :
          nodes[n] # Freed =>
             /\ Valid(nodes[n].next)
             /\ \A l \in DOMAIN nodes[n].neighbors :
                   \A i \in DOMAIN nodes[n].neighbors[l] : Valid(nodes[n].neighbors[l][i])
    /\ \A id \in Ids : Valid(map_get_p(map, id))

\* the parts of C19 about the pointers graph_insert did not yet write when
\* the allocation of entry fails
NoDanglingBesidesList ==
    /\ Valid(idx.gentry)
    /\ \A id \in Ids : Valid(map_get_p(map, id))

(* ------------------------------------------------------------ C20 *)
\* the ids a search of the input sets writes on the state after the step
IdsAfter(tag, v, n) ==
    {hnsw_search(idx', nodes', tag, v, Dims, StaleBuffer(n), n).result[i].id : i \in 1..n}

\* the step is an insert whose map registration failed after the backend
\* insert succeeded
MapRegistrationFailed == call'[Main].op = "insert" /\ ret'[Main] = "MAP_ERROR_ALLOC"

\* C20: when registering the id in the id-map fails after the backend insert
\* succeeded, insert returns an error and the index is as it was before the
\* call: contains(id) is false, the backend element count and the forward
\* list are unchanged, and no search of any kind returns the id.
C20_MapFailureRollsBack ==
    [][MapRegistrationFailed =>
          /\ ret'[Main] # "SUCCESS"
          /\ ~contains(map', call'[Main].id)
          /\ idx'.elements = idx.elements
          /\ ListFrom(nodes', idx'.head) = ListFrom(nodes, idx.head)
          /\ \A tag \in QueryTags, v \in GoodVectors, n \in Ks :
                call'[Main].id \notin IdsAfter(tag, v, n)]_vars

\* the parts of C20 that the code keeps: the error, the id not contained, and
\* the id in the output of no graph search
MapFailureLeavesIdOut ==
    [][MapRegistrationFailed =>
          /\ ret'[Main] # "SUCCESS"
          /\ ~contains(map', call'[Main].id)
          /\ map' = map
          /\ \A v \in GoodVectors, n \in Ks : call'[Main].id \notin IdsAfter(0, v, n)]_vars

\* the part of C20 about the backend: element count and forward list
MapFailureLeavesBackend ==
    [][MapRegistrationFailed =>
          /\ idx'.elements = idx.elements
          /\ ListFrom(nodes', idx'.head) = ListFrom(nodes, idx.head)]_vars

\* the part of C20 about the tag-filtered search
MapFailureLeavesTagSearch ==
    [][MapRegistrationFailed =>
          \A tag \in QueryTags \ {0}, v \in GoodVectors, n \in Ks :
             call'[Main].id \notin IdsAfter(tag, v, n)]_vars

BestToWorst(s) ==
    \A i, j \in 1..Len(s) : i < j => ~is_better_match(s[j].distance, s[i].distance)

WorstToBest(s) ==
    \A i, j \in 1..Len(s) : i < j => ~is_better_match(s[i].distance, s[j].distance)

\* C22: after any sequence of heap_insert, heap_pop and heap_replace, the
\* element heap_peek returns from a non-empty heap is, in a HEAP_BETTER_TOP heap,
\* one that no element of the heap is better than, and in a HEAP_WORST_TOP heap,
\* one that is better than no element of the heap; and popping until empty
\* returns every element, best to worst (worst to best), also among equal
\* distances.
C22_HeapOrder ==
    /\ heap.e > 0 =>
          /\ heap_peek_rc(heap).rc = "HEAP_SUCCESS"
          /\ \A d \in Held(heap) :
                IF heap.type = HEAP_BETTER_TOP
                THEN ~is_better_match(d, heap_peek_rc(heap).node.distance)
                ELSE ~is_better_match(heap_peek_rc(heap).node.distance, d)
    /\ With(PopAll(heap), LAMBDA s :
          /\ Len(s) = heap.e
          /\ IF heap.type = HEAP_BETTER_TOP THEN BestToWorst(s) ELSE WorstToBest(s))

\* a heap_replace has left a heap holding both distances, one of them on two
\* payloads
C22_Witness ==
    /\ call[Main].op = "heap_replace"
    /\ ret[Main] = "HEAP_SUCCESS"
    /\ heap.e = MaxHeap
    /\ Held(heap) = {1, 2}
    /\ \E i, j \in 0..(heap.e - 1) :
          /\ i # j
          /\ At(heap.heap, i).distance = At(heap.heap, j).distance
          /\ At(heap.heap, i).value # At(heap.heap, j).value

(* ------------------------------------------------------------ C23 *)
\* C23: a HEAP_WORST_TOP heap bounded by k that has only been fed through
\* as_update (insert while not full; when full replace the root only if the
\* new element is better than it, else drop) holds min(k, number fed) elements,
\* and no element dropped or evicted is better than an element it holds.
C23_KeepsTheBest ==
    (heap.type = HEAP_WORST_TOP /\ heap.m_size # NOLIMIT_HEAP /\ hist.pure) =>
       /\ heap.e = Min(heap.m_size, hist.fed)
       /\ \A o \in hist.out, d \in Held(heap) : ~is_better_match(o, d)

\* more elements fed than the heap holds, one of them evicted or dropped, and
\* both distances retained
C23_Witness ==
    /\ heap.type = HEAP_WORST_TOP /\ heap.m_size # NOLIMIT_HEAP /\ hist.pure
    /\ call[Main].op = "as_update"
    /\ ret[Main] = "SUCCESS"
    /\ hist.fed > heap.m_size
    /\ hist.out # {}
    /\ Held(heap) = {1, 2}

(* ------------------------------------------------------------ C24 *)
\* the size of a bounded heap stays within its capacity; the array of an
\* unbounded heap is DEFAULT_SIZE doubled some number of times and holds the
\* elements
C24_Size ==
    IF heap.m_size # NOLIMIT_HEAP
    THEN 0 <= heap.e /\ heap.e <= heap.m_size
    ELSE /\ heap.e <= heap.c_size
         /\ heap.c_size \in {DEFAULT_SIZE, 2 * DEFAULT_SIZE}

C24_Step ==
    /\ (call'[Main].op = "heap_insert" /\ heap.m_size # NOLIMIT_HEAP
          /\ heap.e = heap.m_size) =>
          (ret'[Main] = "HEAP_ERROR_FULL" /\ heap' = heap)
    /\ (call'[Main].op = "heap_insert" /\ heap.m_size = NOLIMIT_HEAP) =>
          /\ ret'[Main] = "HEAP_SUCCESS"
          /\ heap'.e = heap.e + 1
          /\ heap'.c_size = IF heap.e = heap.c_size THEN 2 * heap.c_size
                            ELSE heap.c_size
    /\ (call'[Main].op \in {"heap_pop", "heap_peek", "heap_replace"} /\ heap.e = 0) =>
          (ret'[Main] = "HEAP_ERROR_EMPTY" /\ heap' = heap)

\* C24: the size of a bounded heap is always between 0 and its capacity, and
\* heap_insert on a full bounded heap returns HEAP_ERROR_FULL and leaves the
\* heap as it was; heap_insert on an unbounded heap (NOLIMIT_HEAP) never
\* returns HEAP_ERROR_FULL, and its array starts at DEFAULT_SIZE and doubles
\* whenever it is exhausted; heap_pop, heap_peek and heap_replace on an empty
\* heap return HEAP_ERROR_EMPTY and change nothing.
C24_Capacity == []C24_Size /\ [][C24_Step]_vars

\* an unbounded heap has exhausted its first array and doubled it
C24_Witness ==
    /\ call[Main].op = "heap_insert"
    /\ ret[Main] = "HEAP_SUCCESS"
    /\ heap.m_size = NOLIMIT_HEAP
    /\ heap.e = DEFAULT_SIZE + 1
    /\ heap.c_size = 2 * DEFAULT_SIZE

(* ------------------------------------------------------------ C25 *)
\* m holds exactly the keys of f, each with the value f gives it
Holds(m, f) ==
    /\ \A k \in MapKeys : map_has(m, k) <=> k \in DOMAIN f
    /\ \A k \in MapKeys :
          map_get_safe(m, k) = IF k \in DOMAIN f THEN [rc |-> "MAP_OK", value |-> f[k]]
                               ELSE [rc |-> "MAP_KEY_NOT_FOUND", value |-> 0]
    /\ m.elements = Cardinality(DOMAIN f)

C25_Contents ==
    /\ Holds(map, hist.kv)
    /\ With(map_rehash(map, map.mapsize * 2), LAMBDA r :
          r.mapsize = 2 * map.mapsize /\ Holds(r, hist.kv))

C25_Step ==
    /\ (call'[Main].op = "map_remove" /\ ~map_has(map, call'[Main].id)) =>
          (ret'[Main] = "MAP_KEY_NOT_FOUND" /\ map' = map)
    /\ (call'[Main].op = "map_remove" /\ map_has(map, call'[Main].id)) =>
          (ret'[Main] = "MAP_OK" /\ call'[Main].ref = hist.kv[call'[Main].id])
    /\ (call'[Main].op = "map_insert") =>
          map'.mapsize = IF LOAD_FACTOR(map) > map.lfactor_thrhold
                         THEN 2 * map.mapsize ELSE map.mapsize

\* C25: after any sequence of map_insert of keys the map does not hold and
\* map_remove, rehashing inserts included, map_has is true exactly of the keys
\* inserted and not removed, map_get returns the value inserted for each, and
\* elements is their number; map_remove of an absent key returns
\* MAP_KEY_NOT_FOUND and changes nothing; a rehash doubles mapsize and changes
\* no key, value or count.
C25_MapContents == []C25_Contents /\ [][C25_Step]_vars

\* an insert into a map that inserts have rehashed twice, to 4 buckets, and
\* that holds 3 keys
C25_Witness ==
    /\ call[Main].op = "map_insert"
    /\ map.mapsize = 4
    /\ map.elements = 3
    /\ Cardinality(DOMAIN hist.kv) = 3

(* ------------------------------------------------------------ C26 *)
\* the number of neighbor slots allocated for node n at level l
Slots(n, l) == Len(nodes[n].neighbors[l])

\* C26: at every reachable state, also after update_icontext has changed M0
\* between inserts, every node's out-degree at each of its levels is at most
\* the number of neighbor slots allocated for that node at that level, and no
\* edge has been written past a node's neighbor array.
C26_WithinSlots ==
    \A n \in 1..Len(nodes) :
       nodes[n] # Freed =>
          /\ ~nodes[n].oob
          /\ \A l \in 0..nodes[n].level : ODEGREE(nodes, n, l) <= Slots(n, l)

(* ------------------------------------------------------------ C27 *)
\* the nodes a heap holds
Values(h) == {At(h.heap, i).value : i \in 0..(h.e - 1)}

\* the out-neighbors of node n at level l
OutNeighbors(ns, n, l) == {NEIGHBOR_AT(ns, n, l, i) : i \in 0..(ODEGREE(ns, n, l) - 1)}

\* the step is an insert into a non-empty index that graph_insert completed
Connected == /\ call'[Main].op = "insert"
             /\ ret'[Main] = "SUCCESS"
             /\ idx.elements > 0
             /\ Len(nodes') = Len(nodes) + 1

\* The first layer graph_insert processes for the node the step inserts, and
\* what select_neighbors_heuristic chooses there with the flags graph_insert
\* passes: from the result of the layer search, on the graph as it is when
\* that layer is reached (the new node allocated and linked, nothing connected)
FirstLayer == Min(idx.top_level, nodes'[Len(nodes')].level)

HeuristicChoice ==
    With(graph_insert_link(idx,
             Append(nodes, alloc_graph_node(call'[Main].id, 1, call'[Main].vector,
                                            idx.dims_aligned, idx.M0,
                                            nodes'[Len(nodes')].level)),
             Len(nodes')), LAMBDA l :
    With([query |-> VecOf(l.nodes, Len(nodes')), dims_aligned |-> idx.dims_aligned,
          filter_alive |-> 0], LAMBDA sc :
    With(Descend(l.nodes, sc, idx.gentry, idx.top_level, nodes'[Len(nodes')].level),
         LAMBDA d :
    Values(select_neighbors_heuristic(l.nodes, sc,
               search_layer(l.nodes, sc, <<d.ep>>, 1, idx.ef_construct, FirstLayer),
               IF FirstLayer = 0 THEN idx.M0 ELSE idx.M0 \div 2,
               SELECT_NEIGHBORS_HEURISTIC + HEURISTIC_KEEP_PRUNED
                   + HEURISTIC_EXTEND_CANDIDATES,
               FirstLayer).h))))

\* no two nodes of the index are equally far from the vector the step inserts
NoTies ==
    \A a, b \in 1..Len(nodes) :
       a # b => compare_vectors(VecOf(nodes, a), call'[Main].vector, idx.dims_aligned)
                  # compare_vectors(VecOf(nodes, b), call'[Main].vector, idx.dims_aligned)

\* C27: at each layer graph_insert processes, the neighbors connected to the
\* new node are the ones select_neighbors_heuristic chooses with
\* HEURISTIC_KEEP_PRUNED and HEURISTIC_EXTEND_CANDIDATES, not simply the cap
\* closest candidates of the layer search.  Stated for the first layer
\* processed, and for a new vector from which no two nodes are equally far, so
\* that neither choice depends on how equal distances fall.
C27_HeuristicNeighbors ==
    [][(Connected /\ NoTies) =>
          OutNeighbors(nodes', Len(nodes'), FirstLayer) = HeuristicChoice]_vars

(* ------------------------------------------------------------ C28 *)
\* node a is alive and a deleted node of the node list carries its id
Reinserted(a) ==
    /\ a \in Listed
    /\ nodes[a].alive = 1
    /\ \E d \in Listed : nodes[d].alive = 0 /\ nodes[d].vector.id = nodes[a].vector.id

\* C28: after an id is deleted and inserted again, a k-NN search returns the
\* live node that carries it: the deleted node with the same id, visited first,
\* does not make search_layer skip the live one.  Stated for the searches of
\* the graph path (tag mask 0) that ask for as many results as there are nodes.
C28_ReinsertedIsFound ==
    Quiet =>
       \A a \in 1..Len(nodes) :
          Reinserted(a) =>
             \A v \in GoodVectors :
                \E i \in 1..Len(Emitted(0, v, Len(nodes))) :
                   Emitted(0, v, Len(nodes))[i].value = a

(* ------------------------------------------------------------ C29 *)
\* the nodes of the arena that have not been freed
Allocated == {n \in 1..Len(nodes) : nodes[n] # Freed}

\* the slots of node b at level l, counted from 0 as NEIGHBOR_AT counts them
SlotsAt(b, l) == 0..(Slots(b, l) - 1)

\* the nodes whose out-neighbor list at level l contains a
Sources(a, l) ==
    {b \in Allocated : /\ l <= nodes[b].level
                       /\ \E i \in SlotsAt(b, l) : NEIGHBOR_AT(nodes, b, l, i) = a}

\* C29: at every state between facade operations, for every node A and every
\* level L <= level(A), A's in-degree counter at L is the number of nodes whose
\* out-neighbor list at L contains A, and A's out-degree counter at L is the
\* number of non-null slots of its list at L, which are the slots
\* 0 .. out-degree - 1.
C29_DegreeCounters ==
    (\A t \in Threads : pc[t] = "idle") =>
       \A a \in Allocated : \A l \in 0..nodes[a].level :
          /\ IDEGREE(nodes, a, l) = Cardinality(Sources(a, l))
          /\ {i \in SlotsAt(a, l) : NEIGHBOR_AT(nodes, a, l, i) # NULL}
                = 0..(ODEGREE(nodes, a, l) - 1)

\* every node was allocated with the M0 the index has now
SameM0 == \A n \in Allocated : Slots(n, 0) = idx.M0

\* the counters are consistent on the states where no node is older than the
\* current M0
DegreeCountersSameM0 == SameM0 => C29_DegreeCounters

(* ------------------------------------------------------------ C30 *)
\* the cap graph_insert passes to connect_to at level l
CapAt(l) == IF l = 0 THEN idx.M0 ELSE idx.M0 \div 2

\* the step is an insert during which backlink_connect_with_shrink was entered
\* for node n at level l with n's out-list full: only that function writes the
\* out-list of a node other than the new one
ShrinkEntered(n, l) ==
    /\ call'[Main].op = "insert"
    /\ ODEGREE(nodes, n, l) >= CapAt(l)
    /\ nodes'[n].neighbors[l] # nodes[n].neighbors[l]
         \/ ODEGREE(nodes', n, l) # ODEGREE(nodes, n, l)

\* what C30 asks of node n at level l after the step
ShrunkTo(n, l) ==
    /\ ODEGREE(nodes', n, l) = CapAt(l)
    /\ Cardinality(OutNeighbors(nodes', n, l)) = CapAt(l)
    /\ OutNeighbors(nodes', n, l) \subseteq OutNeighbors(nodes, n, l) \cup {Len(nodes) + 1}

\* C30: whenever backlink_connect_with_shrink(n, e, level, M) is entered with
\* n's out-list already full, it returns with n having exactly M out-neighbors
\* at that level, all distinct and all among n's previous neighbors and e; the
\* assertions "wrong number of neighbors" and "invalid odegree" are never
\* reached, also when update_icontext changed M0 after n was created.
C30_ShrinkKeepsM ==
    [][/\ ret'[Main] # "PANIC"
       /\ \A n \in 1..Len(nodes) : \A l \in 0..nodes[n].level :
             ShrinkEntered(n, l) => ShrunkTo(n, l)]_vars

\* the same for the inserts into an index whose nodes were all allocated with
\* the M0 it has
ShrinkKeepsMSameM0 ==
    [][SameM0 =>
          /\ ret'[Main] # "PANIC"
          /\ \A n \in 1..Len(nodes) : \A l \in 0..nodes[n].level :
                ShrinkEntered(n, l) => ShrunkTo(n, l)]_vars

(* ------------------------------------------------------------ C31 *)
\* the largest level among the listed nodes
TopOf(L) == CHOOSE t \in {nodes[n].level : n \in L} : \A n \in L : nodes[n].level <= t

EntryPointAtTop ==
    Quiet =>
       /\ idx.gentry # NULL <=> idx.elements >= 1
       /\ idx.gentry # NULL =>
             /\ idx.gentry \in Listed
             /\ idx.top_level = nodes[idx.gentry].level
             /\ idx.top_level = TopOf(Listed)

FirstBecomesEntry ==
    (call'[Main].op = "insert" /\ ret'[Main] = "SUCCESS" /\ idx.elements = 0) =>
        /\ idx'.gentry = Len(nodes')
        /\ idx'.top_level = nodes'[Len(nodes')].level

\* C31: after any sequence of successful inserts, the entry point is non-null
\* exactly when the index has at least one element, top_level is the entry
\* point's level, and that level is the maximum level over all nodes of the
\* index; the first node inserted into an empty index becomes the entry point
\* with top_level equal to its level.
C31_EntryPoint == []EntryPointAtTop /\ [][FirstBecomesEntry]_vars

\* a node of level 1 has taken the entry point over from a node of level 0
C31_Witness ==
    /\ Quiet
    /\ call[Main].op = "insert" /\ ret[Main] = "SUCCESS"
    /\ idx.elements >= 2
    /\ idx.top_level = 1
    /\ idx.gentry # NULL /\ idx.gentry # 1
    /\ nodes[1].level = 0

(* ------------------------------------------------------------ C32 *)
\* the step is a delete of an id the index contains
DeletesContained ==
    /\ call'[Main].op = "delete"
    /\ call'[Main].id # NULL_ID
    /\ contains(map, call'[Main].id)

\* C32: delete(id) on a contained id changes only that node's alive flag (to
\* 0), the id-map entry for id (removed) and the delete stats: every neighbor
\* list, every in/out-degree counter, the forward list, the element count,
\* the entry point and top_level are unchanged.
C32_DeleteFrame ==
    [][DeletesContained =>
          LET id == call'[Main].id
              ref == map_get_p(map, id)
          IN /\ ret'[Main] = "SUCCESS"
             /\ nodes' = [nodes EXCEPT ![ref].alive = 0]
             /\ idx' = idx
             /\ ~contains(map', id)
             /\ \A k \in Ids \ {id} : map_get_p(map', k) = map_get_p(map, k)
             /\ map'.elements = map.elements - 1
             /\ stats' = [stats EXCEPT !.delete = stats'.delete]
      ]_vars

\* a node with neighbors and a successor in the forward list was deleted
C32_Witness ==
    /\ call[Main].op = "delete" /\ ret[Main] = "SUCCESS"
    /\ \E n \in 1..Len(nodes) :
          /\ nodes[n].vector.id = call[Main].id
          /\ nodes[n].alive = 0
          /\ nodes[n].next # NULL
          /\ ODEGREE(nodes, n, 0) >= 1
          /\ idx.gentry = n

(* ------------------------------------------------------------ C33 *)
Max(a, b) == IF a > b THEN a ELSE b

\* the state is the one a k-NN query returned to
Queried == call[Main].op = "search" /\ ret[Main] = "SUCCESS"

RECURSIVE DescentSteps(_, _, _, _)
DescentSteps(ns, sc, ep, i) ==
    IF i <= 0 THEN <<>>
    ELSE With(search_layer(ns, sc, <<ep>>, 1, 1, i), LAMBDA W :
         IF heap_size(W) # 1 THEN <<[from |-> ep, to |-> NULL]>>
         ELSE <<[from |-> ep, to |-> heap_pop(W).node.value]>>
                  \o DescentSteps(ns, sc, heap_pop(W).node.value, i - 1))

\* the descent of a query for v, or of the insertion of v, on the current index
DescentFor(v) ==
    DescentSteps(nodes, [query |-> v, dims_aligned |-> idx.dims_aligned,
                         filter_alive |-> 0], idx.gentry, idx.top_level)

DistanceTo(v, n) == compare_vectors(VecOf(nodes, n), v, idx.dims_aligned)

\* C34: during the greedy descent of a query or an insertion, at every layer
\* L > 0 the node chosen as entry for layer L-1 is not is_better-worse, with
\* respect to the query, than the node that entered layer L; the ef = 1 layer
\* search always returns exactly one node, so the assertion "assertion in
\* search layer" is never reached.
C34_DescentMonotone ==
    (Quiet /\ idx.gentry # NULL) =>
        \A v \in GoodVectors :
            With(DescentFor(v), LAMBDA s :
                \A j \in 1..Len(s) :
                    /\ s[j].to # NULL
                    /\ ~is_better_match(DistanceTo(v, s[j].from), DistanceTo(v, s[j].to)))

\* a query has descended from the entry point to a nearer node of layer 1
C34_Witness ==
    /\ Quiet
    /\ call[Main].op = "search" /\ ret[Main] = "SUCCESS"
    /\ idx.top_level >= 1
    /\ \E v \in SearchVectors \cap GoodVectors :
          /\ Len(DescentFor(v)) >= 1
          /\ DescentFor(v)[1].to # NULL
          /\ is_better_match(DistanceTo(v, DescentFor(v)[1].to),
                             DistanceTo(v, DescentFor(v)[1].from))

(* ------------------------------------------------------------ C35 *)
\* the breadths search_layer is called with: 1 in a descent, ef_construct in
\* an insertion, knn_ef at level 0 of a query
LayerEfs == {1, idx.ef_construct} \cup {knn_ef(idx, k) : k \in Ks}

\* the entry arrays of up to `len` distinct listed nodes that have level l
EntryArrays(l, len) ==
    LET At_l == {n \in Listed : nodes[n].level >= l}
    IN {<<n>> : n \in At_l}
       \cup (IF len >= 2 THEN {p \in At_l \X At_l : p[1] # p[2]} ELSE {})

\* C35: on every successful return of search_layer with breadth ef, the
\* result heap W holds at most ef entries, all of them distinct nodes, and
\* when filter_alive is set none of them is a node with alive = 0 (including
\* the seeded entry points).
C35_ResultHeap ==
    Quiet =>
        \A v \in GoodVectors : \A l \in 0..idx.top_level : \A ef \in LayerEfs :
        \A fa \in {0, 1} : \A ep \in EntryArrays(l, ef) :
            With(search_layer(nodes, [query |-> v, dims_aligned |-> idx.dims_aligned,
                                      filter_alive |-> fa], ep, Len(ep), ef, l),
                 LAMBDA W :
                    /\ heap_size(W) <= ef
                    /\ Cardinality(Values(W)) = heap_size(W)
                    /\ fa = 1 => \A n \in Values(W) : nodes[n].alive # 0)

\* a query has run on an index that lists a dead node and a live one, linked
\* to each other at level 0; the layer search seeded with the dead node and
\* filter_alive set returns the live one alone
C35_Witness ==
    /\ Quiet
    /\ call[Main].op = "search" /\ ret[Main] = "SUCCESS"
    /\ \E d \in Listed : \E a \in Listed :
          /\ nodes[d].alive = 0 /\ nodes[a].alive = 1
          /\ a \in OutNeighbors(nodes, d, 0)
          /\ Values(search_layer(nodes, [query |-> MkVec(0),
                                         dims_aligned |-> idx.dims_aligned,
                                         filter_alive |-> 1], <<d>>, 1, 1, 0)) = {a}

(* ------------------------------------------------------------ C36 *)
\* the walk from n along ->next: the nodes met, and whether the walk ended at
\* NULL without meeting a freed node or a node a second time
RECURSIVE Walk(_, _, _)
Walk(ns, n, met) ==
    IF n = NULL THEN [list |-> met, sound |-> TRUE]
    ELSE IF ns[n] = Freed \/ \E i \in 1..Len(met) : met[i] = n
    THEN [list |-> met, sound |-> FALSE]
    ELSE Walk(ns, ns[n].next, Append(met, n))

ElementsAreListed ==
    Quiet =>
    With(Walk(nodes, idx.head, <<>>), LAMBDA w :
        /\ w.sound
        /\ Len(w.list) = idx.elements
        /\ \A n \in 1..Len(nodes) :
              nodes[n] # Freed => \E i \in 1..Len(w.list) : w.list[i] = n)

ElementsStay == idx'.elements >= idx.elements

\* C36: at every state between facade operations on an HNSW index, the
\* backend element count equals the number of nodes (live and dead) reachable
\* from head along the forward list, each node appears in that list exactly
\* once, and the count never decreases before destroy.
C36_ElementCount == []ElementsAreListed /\ [][ElementsStay]_vars

\* the same for an index none of whose inserts failed inside graph_insert
ElementCountNoneFreed == [](NoneFreed => ElementsAreListed) /\ [][ElementsStay]_vars

(* ------------------------------------------------------------ C37 *)
\* the threads between the first load and the last store of UPDATE_TIMESTAT
Updating ==
    {t \in Threads : pc[t] \in {"count_load", "count_store", "total_load", "total_store"}}

\* C37: under any interleaving of concurrent successful search calls on one
\* index, once all calls have returned the stats count equals the number of
\* successful calls and total equals the sum of their recorded durations: no
\* statistics update is lost, because every write to the stats record is made
\* while no other thread can write it.
C37_NoLostUpdate ==
    /\ Cardinality(Updating) <= 1
    /\ (\A t \in Threads : pc[t] = "idle") =>
          /\ stats.search_n.count = hist.ok
          /\ stats.search_n.total = hist.sum

\* the second part alone: what the callers find once all calls have returned
CountsOnceReturned ==
    (\A t \in Threads : pc[t] = "idle") =>
        /\ stats.search_n.count = hist.ok
        /\ stats.search_n.total = hist.sum

(* ------------------------------------------------------------ C38 *)
\* thread t holds the index lock
Holding(t) == rwlock.writer = t \/ t \in rwlock.readers
\* thread t is at the pthread_rwlock_rdlock or pthread_rwlock_wrlock of its call
Blocked(t) == pc[t] \in {"insert_lock", "delete_lock", "search_lock", "context_lock"}

\* an operation that has returned holds no lock, and an operation about to
\* acquire the lock does not hold it
LockDiscipline == \A t \in Threads : (pc[t] = "idle" \/ Blocked(t)) => ~Holding(t)

OutList(n, l) == [i \in 1..ODEGREE(nodes, n, l) |-> NEIGHBOR_AT(nodes, n, l, i - 1)]

NoSelfNoDuplicate ==
    \A n \in 1..Len(nodes) : \A l \in 0..nodes[n].level :
        /\ \A i \in 1..Len(OutList(n, l)) : OutList(n, l)[i] # n
        /\ \A i, j \in 1..Len(OutList(n, l)) :
              i # j => OutList(n, l)[i] # OutList(n, l)[j]

\* C39: after any sequence of successful inserts, no node has itself in any
\* of its neighbor lists and no neighbor list contains the same node twice.
\* (InBounds: no insert has failed and freed its node, and no store has gone
\* past a neighbor array.)
C39_NoSelfNoDuplicate == InBounds => NoSelfNoDuplicate

\* MaxGraph nodes were inserted with M0 = 1: from the third insert on, the one
\* neighbor the new node chose had its full list shrunk
C39_Witness ==
    /\ InBounds /\ SameM0
    /\ call[Main].op = "insert" /\ ret[Main] = "SUCCESS"
    /\ idx.M0 = 1
    /\ Len(nodes) = MaxGraph
    /\ \A n \in 1..Len(nodes) : ODEGREE(nodes, n, 0) = 1

(* ------------------------------------------------------------ C40 *)
\* the nodes a heap holds, one entry per stored element
HeapEntries(h) == [i \in 1..h.e |-> At(h.heap, i - 1).value]

NoRepeat(s) == \A i, j \in 1..Len(s) : i # j => s[i] # s[j]

\* search_layer's state after its seeding loop
SL_Seeded(sc, ep, ef) ==
    SL_Seed(nodes, sc, ep, 0, Len(ep),
            [C |-> init_heap(HEAP_BETTER_TOP, NOLIMIT_HEAP),
             W |-> init_heap(HEAP_WORST_TOP, ef),
             visited |-> init_map(VisitedMapSize, VisitedMapThreshold),
             w |-> HeapNode(NULL, 0)])

\* the node popped from C in each iteration of search_layer's main loop, in
\* order; the last one may be the one the loop breaks on
RECURSIVE SL_Pops(_, _, _)
SL_Pops(sc, level, S) ==
    IF heap_size(S.C) = 0 THEN <<>>
    ELSE LET p  == heap_pop(S.C)
             c  == p.node
             w1 == IF heap_size(S.W) > 0 THEN heap_peek(S.W) ELSE S.w
             S1 == [S EXCEPT !.C = p.h, !.w = w1]
         IN IF heap_size(S.W) > 0 /\ heap_full(S.W)
               /\ is_better_match(w1.distance, c.distance)
            THEN <<c.value>>
            ELSE <<c.value>>
                 \o SL_Pops(sc, level, SL_Neighbors(nodes, sc, c.value, level, 0, S1))

\* every push onto C: the nodes popped and the nodes left in C at the end
SL_Pushes(sc, level, S) ==
    SL_Pops(sc, level, S) \o HeapEntries(SL_Loop(nodes, sc, level, S).C)

\* C40: search_layer terminates on every finite graph for every entry set
\* and every ef >= 1: each node is pushed onto the candidate heap at most
\* once, so the main loop runs at most as many iterations as there are
\* nodes, also when the graph contains cycles, dead nodes or nodes sharing
\* an id.
C40_LayerTerminates ==
    Quiet =>
        \A v \in GoodVectors : \A l \in 0..idx.top_level : \A ef \in LayerEfs :
        \A fa \in {0, 1} : \A ep \in EntryArrays(l, ef) :
            With(SL_Seeded([query |-> v, dims_aligned |-> idx.dims_aligned,
                            filter_alive |-> fa], ep, ef),
                 LAMBDA S :
                    With([query |-> v, dims_aligned |-> idx.dims_aligned,
                          filter_alive |-> fa],
                         LAMBDA sc :
                            /\ NoRepeat(SL_Pushes(sc, l, S))
                            /\ Len(SL_Pops(sc, l, S)) <= Cardinality(Listed)))

\* the index lists a dead node and a live node with the same id that point
\* to each other at level 0; the layer search seeded with the dead one pushes
\* it alone, the live one being skipped as visited under the id they share
C40_Witness ==
    /\ Quiet
    /\ \E d \in Listed : \E a \in Listed :
          /\ nodes[d].alive = 0 /\ nodes[a].alive = 1
          /\ IdOf(nodes, d) = IdOf(nodes, a)
          /\ a \in OutNeighbors(nodes, d, 0) /\ d \in OutNeighbors(nodes, a, 0)
          /\ \E v \in GoodVectors : \E ef \in LayerEfs :
                With([query |-> v, dims_aligned |-> idx.dims_aligned,
                      filter_alive |-> 1],
                     LAMBDA sc : SL_Pushes(sc, 0, SL_Seeded(sc, <<d>>, ef)) = <<d>>)

====
